---- MODULE Spec2Model ----
(***************************************************************************)
(* A model of the circuit_sim MNA engine: circuit assembly                 *)
(* (CircuitComponents.__init__), the host surface of Circuit, the Newton   *)
(* core Circuit.solve and the transient time stepper.                      *)
(*                                                                         *)
(* Conventions                                                             *)
(*  - A Python string is a sequence of tokens; "$" and "." are always      *)
(*    tokens of their own, so startswith('$') and find('.') are computed.  *)
(*    None is the empty sequence.                                          *)
(*  - A terminal (node1 / node2) is a record: str = TRUE with its name     *)
(*    while it is symbolic, str = FALSE with its voltage once it is fixed  *)
(*    (Python: type(node) is str / a float).                               *)
(*  - Voltages are integers (volts).  Times are integer ticks.             *)
(***************************************************************************)
EXTENDS Integers, Sequences, FiniteSets, TLC

VARIABLES
    host,                 \* the calling program: its circuit, the calls it makes
    phase,                \* "new" | "built" | "failed": the Circuit object
    list_of_components,   \* the components as handed to the constructor
    init_constants,       \* voltage_constants as handed to the constructor
    all_components,       \* CircuitComponents.all_components
    voltage_constants,    \* the dict, as the constructor leaves it
    constant_voltages,    \* indices (into all_components) of the VS
    non_linear,           \* indices of the diodes
    lc,                   \* indices of the capacitors and inductors
    modified,             \* CircuitComponents.modified (indices, in order)
    variable_names_dict,  \* name -> index
    variable_names_list,  \* index -> name (position i+1 holds index i)
    components_dict,      \* name -> index of the component
    passes,               \* history: passes of the constant-propagation loop
    last_call,            \* history: the last public call, <<operation, arg>>
    last_returned,        \* what get_component_for_modification returned
    pc,                   \* position of the running call; "idle" between calls
    error,                \* the exception the last call ended with, or "none"
    ls_dtype,             \* linear system: "none" | "float64" | "complex128"
    stamp,                \* linear system: what each component last stamped
    x,                    \* linear system: the solution; None before a solve
    x_fresh,              \* history: x solves the system as it is stamped now
    t,                    \* Circuit.__t
    start_record_time,    \* Circuit.__start_record_time
    var_list_index,       \* Circuit.__var_list_index
    time_stamps,          \* Circuit.__time_stamps
    results,              \* Circuit.__results
    call,                 \* arguments and locals of the running call
    desc,                 \* the call's AnalysisDescription
    newton,               \* locals and history of the running Circuit.solve
    hist,                 \* history of the transient calls
    A,                    \* linear system: the matrix, entry by entry
    b,                    \* linear system: the right-hand side
    stamped               \* how many components have stamped A and b

tableVars == <<host, phase, list_of_components, init_constants,
               voltage_constants, constant_voltages, non_linear, lc,
               variable_names_dict, variable_names_list, components_dict,
               passes>>

lsVars == <<ls_dtype, stamp, x, x_fresh>>

recVars == <<t, start_record_time, var_list_index, time_stamps, results>>

\* A and b are followed entry by entry while the components stamp a new
\* system; the analyses describe them by "stamp"
entryVars == <<A, b, stamped>>

vars == <<tableVars, all_components, modified, last_call, last_returned, pc, error, lsVars,
          recVars, call, desc, newton, hist, entryVars>>

-----------------------------------------------------------------------------
(* Strings *)

None == <<>>

GND == <<"gnd">>

Digits == <<"0", "1", "2", "3", "4", "5", "6", "7", "8", "9">>

RECURSIVE str(_)
str(n) ==
    IF n < 10 THEN <<Digits[n + 1]>>
    ELSE str(n \div 10) \o <<Digits[(n % 10) + 1]>>

startswith(s, tok) == Len(s) > 0 /\ s[1] = tok

contains(s, tok) == \E i \in 1..Len(s) : s[i] = tok

-----------------------------------------------------------------------------
(* Terminals *)

Sym(n) == [str |-> TRUE, name |-> n, val |-> 0]

Num(v) == [str |-> FALSE, name |-> None, val |-> v]

\* "self.node1 in voltage_constants": only a string can be a key
InConstants(node, vc) == node.str /\ node.name \in DOMAIN vc

Abs(v) == IF v < 0 THEN -v ELSE v

-----------------------------------------------------------------------------
(* Components as constructed: IComponent.__init__ and the subclasses *)

Kinds == {"R", "VS", "Diode", "C", "L", "VG"}

\* v_bias is Diode.__v_bias; st_v, st_i are (vcap, icap) of a C and (vL, iL)
\* of an L, built with the default v0 = 0, i0 = 0; old_value is R.__old_value
\* (0 stands for None: no resistance is 0)
NewComponent(kind, node1, node2, value, name) ==
    [kind |-> kind, node1 |-> Sym(node1), node2 |-> Sym(node2),
     value |-> value, name |-> name,
     current_var_name |-> None, internal_node_name |-> None,
     disabled |-> FALSE,
     v_bias |-> 0, st_v |-> 0, st_i |-> 0, old_value |-> 0]

\* IComponent.check_name: TRUE when the name is legal
check_name(name) == ~startswith(name, "$") /\ ~contains(name, ".")

\* generate_name gone wrong: the id is not advanced
generate_name_KeepsId(c, id) ==
    LET named == IF c.name = None
                 THEN [c EXCEPT !.name = <<"$">> \o str(id)]
                 ELSE c
        aux   == IF c.kind = "R" THEN named
                 ELSE IF c.kind = "Diode"
                 THEN [named EXCEPT
                         !.current_var_name = named.name \o <<".", "current">>,
                         !.internal_node_name =
                             named.name \o <<".", "internal_node">>]
                 ELSE [named EXCEPT
                         !.current_var_name = named.name \o <<".", "current">>]
    IN  [c |-> aux, id |-> id]

\* IComponent.generate_name and its overrides: the component and the next id
generate_name(c, id) ==
    LET named == IF c.name = None
                 THEN [c EXCEPT !.name = <<"$">> \o str(id)]
                 ELSE c
        next  == IF c.name = None THEN id + 1 ELSE id
        aux   == IF c.kind = "R" THEN named
                 ELSE IF c.kind = "Diode"
                 THEN [named EXCEPT
                         !.current_var_name = named.name \o <<".", "current">>,
                         !.internal_node_name =
                             named.name \o <<".", "internal_node">>]
                 ELSE [named EXCEPT
                         !.current_var_name = named.name \o <<".", "current">>]
    IN  [c |-> aux, id |-> next]

\* "for c in list_of_components: _id = c.generate_name(_id)"
RECURSIVE GenerateNames(_, _, _)
GenerateNames(list, i, id) ==
    IF i > Len(list) THEN list
    ELSE LET r == generate_name(list[i], id)
         IN  GenerateNames([list EXCEPT ![i] = r.c], i + 1, r.id)

\* the uniqueness check: TRUE when some name is used more than once
NameUsedTwice(list) ==
    \E i, j \in 1..Len(list) : i < j /\ list[i].name = list[j].name

\* the partition into the special lists, as index lists in declared order
RECURSIVE IndicesOf(_, _, _)
IndicesOf(list, kinds, i) ==
    IF i > Len(list) THEN <<>>
    ELSE (IF list[i].kind \in kinds THEN <<i>> ELSE <<>>)
         \o IndicesOf(list, kinds, i + 1)

-----------------------------------------------------------------------------
(* Constant propagation *)

\* IComponent.resolve_constants (R, Diode, C, L, VG)
resolve_constants(c, vc) ==
    LET n1 == IF InConstants(c.node1, vc) THEN Num(vc[c.node1.name])
              ELSE c.node1
        n2 == IF InConstants(c.node2, vc) THEN Num(vc[c.node2.name])
              ELSE c.node2
    IN  [c |-> [c EXCEPT !.node1 = n1, !.node2 = n2], vc |-> vc,
         change |-> FALSE, raised |-> FALSE]

\* The test VS.resolve_constants opens with.  The source tests node1 twice.
BothNodesNumeric(c) == (~c.node1.str) /\ (~c.node1.str)

\* VS_resolve_constants gone wrong: anchored at node2, the VS is not disabled
VS_resolve_constants_StaysEnabled(c, vc) ==
    IF BothNodesNumeric(c)
    THEN [c |-> c, vc |-> vc, change |-> FALSE,
          raised |-> Abs(c.node1.val - c.node2.val - c.value) > 0]
    ELSE IF InConstants(c.node1, vc)
    THEN LET v1 == vc[c.node1.name]
             v2 == v1 - c.value
         IN  [c |-> [c EXCEPT !.node1 = Num(v1), !.node2 = Num(v2),
                              !.disabled = TRUE],
              vc |-> [n \in DOMAIN vc \cup {c.node2.name} |->
                        IF n = c.node2.name THEN v2 ELSE vc[n]],
              change |-> TRUE, raised |-> FALSE]
    ELSE IF InConstants(c.node2, vc)
    THEN LET v2 == vc[c.node2.name]
             v1 == v2 + c.value
         IN  [c |-> [c EXCEPT !.node2 = Num(v2), !.node1 = Num(v1)],
              vc |-> [n \in DOMAIN vc \cup {c.node1.name} |->
                        IF n = c.node1.name THEN v1 ELSE vc[n]],
              change |-> TRUE, raised |-> FALSE]
    ELSE [c |-> c, vc |-> vc, change |-> FALSE, raised |-> FALSE]

\* VS.resolve_constants
VS_resolve_constants(c, vc) ==
    IF BothNodesNumeric(c)
    THEN [c |-> c, vc |-> vc, change |-> FALSE,
          raised |-> Abs(c.node1.val - c.node2.val - c.value) > 0]
    ELSE IF InConstants(c.node1, vc)
    THEN LET v1 == vc[c.node1.name]
             v2 == v1 - c.value
         IN  [c |-> [c EXCEPT !.node1 = Num(v1), !.node2 = Num(v2),
                              !.disabled = TRUE],
              vc |-> [n \in DOMAIN vc \cup {c.node2.name} |->
                        IF n = c.node2.name THEN v2 ELSE vc[n]],
              change |-> TRUE, raised |-> FALSE]
    ELSE IF InConstants(c.node2, vc)
    THEN LET v2 == vc[c.node2.name]
             v1 == v2 + c.value
         IN  [c |-> [c EXCEPT !.node2 = Num(v2), !.node1 = Num(v1),
                              !.disabled = TRUE],
              vc |-> [n \in DOMAIN vc \cup {c.node1.name} |->
                        IF n = c.node1.name THEN v1 ELSE vc[n]],
              change |-> TRUE, raised |-> FALSE]
    ELSE [c |-> c, vc |-> vc, change |-> FALSE, raised |-> FALSE]

\* dynamic dispatch of c.resolve_constants(voltage_constants)
Resolve(c, vc) ==
    IF c.kind = "VS" THEN VS_resolve_constants(c, vc)
    ELSE resolve_constants(c, vc)

\* one "for c in <idx>: c.resolve_constants(voltage_constants)" pass over the
\* components listed in idx, from position k on; st = [list, vc, change, raised]
RECURSIVE ResolvePass(_, _, _)
ResolvePass(st, idx, k) ==
    IF k > Len(idx) \/ st.raised THEN st
    ELSE LET r == Resolve(st.list[idx[k]], st.vc)
         IN  ResolvePass([list   |-> [st.list EXCEPT ![idx[k]] = r.c],
                          vc     |-> r.vc,
                          change |-> st.change \/ r.change,
                          raised |-> r.raised,
                          passes |-> st.passes],
                         idx, k + 1)

\* ResolveLoop gone wrong: one pass, no "while changes_found"
ResolveLoop_OnePass(st, idx) ==
    ResolvePass([st EXCEPT !.change = FALSE, !.passes = st.passes + 1],
                idx, 1)

\* "while changes_found: ..." over self.constant_voltages
RECURSIVE ResolveLoop(_, _)
ResolveLoop(st, idx) ==
    LET r == ResolvePass([st EXCEPT !.change = FALSE,
                                    !.passes = st.passes + 1], idx, 1)
    IN  IF r.raised \/ ~r.change THEN r ELSE ResolveLoop(r, idx)

-----------------------------------------------------------------------------
(* Variable table *)

\* IComponent.get_variable_names
base_get_variable_names(c) ==
    (IF c.node1.str THEN <<c.node1.name>> ELSE <<>>)
    \o (IF c.node2.str THEN <<c.node2.name>> ELSE <<>>)

\* get_variable_names of each variant
get_variable_names(c) ==
    IF c.kind = "R" THEN base_get_variable_names(c)
    ELSE IF c.kind = "VS"
    THEN IF c.disabled THEN <<>>
         ELSE base_get_variable_names(c) \o <<c.current_var_name>>
    ELSE IF c.kind = "Diode"
    THEN base_get_variable_names(c)
         \o <<c.internal_node_name, c.current_var_name>>
    ELSE base_get_variable_names(c) \o <<c.current_var_name>>

\* AddNames gone wrong: the test "var_name not in dict" is left out
RECURSIVE AddNames_NoTest(_, _, _)
AddNames_NoTest(dict, names, k) ==
    IF k > Len(names) THEN dict
    ELSE AddNames_NoTest([n \in DOMAIN dict \cup {names[k]} |->
                            IF n = names[k] THEN Cardinality(DOMAIN dict)
                            ELSE dict[n]],
                         names, k + 1)

\* "if var_name not in dict: dict[var_name] = var_name_index; index += 1"
RECURSIVE AddNames(_, _, _)
AddNames(dict, names, k) ==
    IF k > Len(names) THEN dict
    ELSE IF names[k] \in DOMAIN dict THEN AddNames(dict, names, k + 1)
    ELSE AddNames([n \in DOMAIN dict \cup {names[k]} |->
                     IF n = names[k] THEN Cardinality(DOMAIN dict)
                     ELSE dict[n]],
                  names, k + 1)

\* the walk over list_of_components that fills variable_names_dict
RECURSIVE CollectVariables(_, _, _)
CollectVariables(dict, list, i) ==
    IF i > Len(list) THEN dict
    ELSE CollectVariables(AddNames(dict, get_variable_names(list[i]), 1),
                          list, i + 1)

\* variable_names_list[index] = var_name for every item of the dict
BuildNamesList(dict) ==
    [p \in 1..Cardinality(DOMAIN dict) |->
        IF \E n \in DOMAIN dict : dict[n] = p - 1
        THEN CHOOSE n \in DOMAIN dict : dict[n] = p - 1
        ELSE None]

\* components_dict: the components whose name does not start with '$'; a later
\* component of the same name would replace an earlier one
\* BuildComponentsDict gone wrong: generated names are kept
BuildComponentsDict_WithGenerated(list) ==
    [n \in {list[i].name : i \in 1..Len(list)} |->
        CHOOSE i \in 1..Len(list) :
            /\ list[i].name = n
            /\ \A j \in 1..Len(list) : list[j].name = n => j <= i]

BuildComponentsDict(list) ==
    LET names == {list[i].name : i \in {j \in 1..Len(list) :
                                          ~startswith(list[j].name, "$")}}
    IN  [n \in names |->
            CHOOSE i \in 1..Len(list) :
                /\ list[i].name = n
                /\ \A j \in 1..Len(list) : list[j].name = n => j <= i]

EmptyDict == [n \in {} |-> 0]

\* CircuitComponents.__init__
CircuitComponents(components, constants) ==
    LET named == GenerateNames(components, 1, 0)
        cv    == IndicesOf(named, {"VS"}, 1)
        loop  == ResolveLoop([list |-> named, vc |-> constants,
                              change |-> FALSE, raised |-> FALSE,
                              passes |-> 0], cv)
        final == ResolvePass([loop EXCEPT !.change = FALSE],
                             [i \in 1..Len(named) |-> i], 1)
        dict  == CollectVariables(EmptyDict, final.list, 1)
        ok    == ~NameUsedTwice(named) /\ ~loop.raised /\ ~final.raised
    IN  [ok                  |-> ok,
         all_components      |-> IF NameUsedTwice(named) THEN named
                                 ELSE final.list,
         voltage_constants   |-> IF NameUsedTwice(named) THEN constants
                                 ELSE final.vc,
         constant_voltages   |-> IF NameUsedTwice(named) THEN <<>> ELSE cv,
         non_linear          |-> IF NameUsedTwice(named) THEN <<>>
                                 ELSE IndicesOf(named, {"Diode"}, 1),
         lc                  |-> IF NameUsedTwice(named) THEN <<>>
                                 ELSE IndicesOf(named, {"C", "L"}, 1),
         passes              |-> IF NameUsedTwice(named) THEN 0
                                 ELSE loop.passes,
         variable_names_dict |-> IF ok THEN dict ELSE EmptyDict,
         variable_names_list |-> IF ok THEN BuildNamesList(dict) ELSE <<>>,
         components_dict     |-> IF ok THEN BuildComponentsDict(final.list)
                                 ELSE EmptyDict]

-----------------------------------------------------------------------------
(* The Circuit object as Circuit.__init__ leaves it *)

\* AnalysisModes
DC == 0
Transient == 1
AC_Sweep == 2

\* AnalysisDescription.__init__; time_step 1e-6 s is written 0 ticks here
\* angular frequencies are counted in hundredths of a radian per second
WUnit == 100

\* "2 * math.pi", in hundredths
TwoPi == 628

AnalysisDescription == [mode |-> DC, time_step |-> 0, w |-> 1 * WUnit]

NoStamp == [on |-> FALSE, exact |-> TRUE, mode |-> DC, time_step |-> 0,
            v_bias |-> 0, st_v |-> 0, st_i |-> 0, value |-> 0, w |-> 0]

\* a calling program that only constructs the circuit
NoHost == [program |-> "none", max_iters |-> {}, run_times |-> {},
           time_steps |-> {}, starts |-> {}, var_lists |-> {},
           names |-> {}, clears |-> FALSE, points |-> {}, scales |-> {},
           calls |-> 0]

\* freq, var_list_index, results and k are the locals of ac_sweep (k counts
\* the grid points taken by "for f in freq"); collected is the history of
\* its samples
NoCall == [run_time |-> 0, time_step |-> 0, max_iter |-> 0, end_time |-> 0,
           op |-> "none", after_end |-> FALSE, omitted |-> FALSE,
           num_data_points |-> 0, freq |-> <<>>, var_list_index |-> <<>>,
           results |-> <<>>, k |-> 0, collected |-> <<>>]

NoNewton == [max_iter |-> 0, outcome |-> "none", num_iter |-> 0,
             solves |-> 0, rounds |-> 0, tests |-> <<>>, err |-> 0]

NoHist == [calls |-> 0, entered |-> FALSE, t_before |-> 0, prev_end |-> 0,
           reached |-> TRUE, var_list |-> <<>>, key_error |-> FALSE,
           obtained |-> {}, requested |-> {}, restamped |-> <<>>,
           solves |-> 0,
           appended |-> <<>>, advances |-> <<>>,
           got |-> [raised |-> "none", value |-> 0]]

RunFieldsInit ==
    /\ pc = "idle"
    /\ error = "none"
    /\ ls_dtype = "none"
    /\ stamp = <<>>
    /\ x = None
    /\ x_fresh = FALSE
    /\ t = 0
    /\ start_record_time = 0
    /\ var_list_index = <<>>
    /\ time_stamps = <<>>
    /\ results = <<>>
    /\ call = NoCall
    /\ desc = AnalysisDescription
    /\ newton = NoNewton
    /\ hist = NoHist
    /\ A = <<>>
    /\ b = <<>>
    /\ stamped = 0

-----------------------------------------------------------------------------
(* Component state and stamps *)

\* Diode.update_state limits a step of v_bias to 0.3 V; voltages of x are
\* counted in tenths of a volt
BiasStep == 3

\* Circuit.solve: max_err = norm * 1e-3, at least 1e-6.  The residual is
\* counted in microvolt-sized units, so one tenth of a volt of norm gives 100
RelTol == 100
MinTol == 1

\* read_node1_and_node2_as_values, for one terminal
NodeValue(node, dict, xs) ==
    IF node.str THEN xs[dict[node.name] + 1] ELSE node.val

\* Diode.update_state gone wrong: v_bias follows the solved voltage at once
Diode_update_state_Unlimited(c, dict, xs) ==
    [c EXCEPT !.v_bias =
        NodeValue(c.node1, dict, xs) - NodeValue(c.node2, dict, xs)]

\* Diode.update_state
Diode_update_state(c, dict, xs) ==
    LET voltage == NodeValue(c.node1, dict, xs) - NodeValue(c.node2, dict, xs)
    IN  [c EXCEPT !.v_bias =
            IF voltage > c.v_bias + BiasStep THEN c.v_bias + BiasStep
            ELSE IF voltage < c.v_bias - BiasStep THEN c.v_bias - BiasStep
            ELSE voltage]

\* C.update_state and L.update_state
LC_update_state(c, dict, xs) ==
    [c EXCEPT !.st_i = xs[dict[c.current_var_name] + 1],
              !.st_v = NodeValue(c.node1, dict, xs)
                         - NodeValue(c.node2, dict, xs)]

\* What a component's rows of A and b hold, as the values they were computed
\* from: apply_element_stamps / apply_component_only_stamps of each variant.
\* exact tells that the rows equal one fresh stamp of these values.
RowsOf(c, d) ==
    IF c.kind = "R" THEN [NoStamp EXCEPT !.on = TRUE, !.value = c.value]
    ELSE IF c.kind \in {"VS", "VG"}
    THEN [NoStamp EXCEPT !.on = TRUE, !.value = c.value]
    ELSE IF c.kind = "Diode"
    THEN [NoStamp EXCEPT !.on = TRUE, !.v_bias = c.v_bias]
    ELSE IF d.mode = Transient
    THEN [NoStamp EXCEPT !.on = TRUE, !.mode = d.mode, !.value = c.value,
                         !.time_step = d.time_step,
                         !.st_v = c.st_v, !.st_i = c.st_i]
    ELSE IF d.mode = AC_Sweep
    THEN [NoStamp EXCEPT !.on = TRUE, !.mode = d.mode, !.value = c.value,
                         !.w = d.w]
    ELSE [NoStamp EXCEPT !.on = TRUE, !.mode = d.mode, !.value = c.value]

\* init_linear_system of each variant: the component and its rows
init_linear_system(c, d) ==
    IF c.kind = "R"
    THEN [c |-> [c EXCEPT !.old_value = c.value], rows |-> RowsOf(c, d)]
    ELSE IF c.kind = "VS" /\ c.disabled THEN [c |-> c, rows |-> NoStamp]
    ELSE [c |-> c, rows |-> RowsOf(c, d)]

\* update_linear_system of each variant, on rows as they are.  The resistor
\* subtracts the stamp of old_value and stamps anew.
update_linear_system(c, rows, d) ==
    IF c.kind = "R"
    THEN [c |-> [c EXCEPT !.old_value = c.value],
          rows |-> [RowsOf(c, d) EXCEPT
                      !.exact = rows.exact /\ rows.value = c.old_value]]
    ELSE IF c.kind = "VS" /\ c.disabled THEN [c |-> c, rows |-> rows]
    ELSE [c |-> c, rows |-> [RowsOf(c, d) EXCEPT !.exact = rows.exact]]

-----------------------------------------------------------------------------
(* The entries of A and b.  A conductance is counted in units of 1/GScale
   siemens, so that 1 / value is exact for the resistances used *)

GScale == 6

\* "one_over_R = 1 / value"
one_over_R(value) == GScale \div value

\* NumpyLinearSystem.__init__: A and b of zeros
Zeros(n) == [A |-> [rc \in (0..(n - 1)) \X (0..(n - 1)) |-> 0],
             b |-> [r \in 0..(n - 1) |-> 0]]

\* "A[r, c] += v", "A[r, c] = v", "b[r] += v", "b[r] = v"
AddA(ls, r, c, v) == [ls EXCEPT !.A[<<r, c>>] = @ + v]
SetA(ls, r, c, v) == [ls EXCEPT !.A[<<r, c>>] = v]
AddB(ls, r, v) == [ls EXCEPT !.b[r] = @ + v]
SetB(ls, r, v) == [ls EXCEPT !.b[r] = v]

\* read_node1_and_node2_as_indices: an index of the table or a value
NodeIndex(node, dict) == IF node.str THEN dict[node.name] ELSE node.val

\* R_apply_element_stamps gone wrong: node2's row gets no off-diagonal entry
R_apply_element_stamps_OneSided(c, ls, dict, partial_undo) ==
    LET g  == IF partial_undo THEN -one_over_R(c.old_value)
              ELSE one_over_R(c.value)
        v1 == NodeIndex(c.node1, dict)
        v2 == NodeIndex(c.node2, dict)
        s1 == IF c.node1.str
              THEN IF c.node2.str
                   THEN AddA(AddA(ls, v1, v1, g), v1, v2, -g)
                   ELSE AddB(AddA(ls, v1, v1, g), v1, v2 * g)
              ELSE ls
    IN  IF c.node2.str
        THEN IF c.node1.str
             THEN AddA(s1, v2, v2, g)
             ELSE AddB(AddA(s1, v2, v2, g), v2, v1 * g)
        ELSE s1

\* R.apply_element_stamps
R_apply_element_stamps(c, ls, dict, partial_undo) ==
    LET g  == IF partial_undo THEN -one_over_R(c.old_value)
              ELSE one_over_R(c.value)
        v1 == NodeIndex(c.node1, dict)
        v2 == NodeIndex(c.node2, dict)
        s1 == IF c.node1.str
              THEN IF c.node2.str
                   THEN AddA(AddA(ls, v1, v1, g), v1, v2, -g)
                   ELSE AddB(AddA(ls, v1, v1, g), v1, v2 * g)
              ELSE ls
    IN  IF c.node2.str
        THEN IF c.node1.str
             THEN AddA(AddA(s1, v2, v2, g), v2, v1, -g)
             ELSE AddB(AddA(s1, v2, v2, g), v2, v1 * g)
        ELSE s1

\* VS.init_linear_system
VS_init_linear_system(c, ls, dict) ==
    IF c.disabled THEN ls
    ELSE LET v1 == dict[c.node1.name]
             v2 == dict[c.node2.name]
             i  == dict[c.current_var_name]
         IN  SetB(SetA(SetA(AddA(AddA(ls, v1, i, -1), v2, i, 1),
                            i, v1, 1), i, v2, -1), i, c.value)

\* R.update_linear_system gone wrong: the undo subtracts the stamp of the
\* value the resistor has now
R_update_linear_system_UndoesCurrent(c, ls, dict) ==
    R_apply_element_stamps(
        c, R_apply_element_stamps([c EXCEPT !.old_value = c.value],
                                  ls, dict, TRUE),
        dict, FALSE)

\* R.update_linear_system: the undo of old_value, then init_linear_system
R_update_linear_system(c, ls, dict) ==
    R_apply_element_stamps(
        c, R_apply_element_stamps(c, ls, dict, TRUE), dict, FALSE)

\* VS.update_linear_system
VS_update_linear_system(c, ls, dict) ==
    IF c.disabled THEN ls ELSE SetB(ls, dict[c.current_var_name], c.value)

\* A complex entry re + im * j of a complex128 system is counted as
\* re + im * JUnit; sums and real multiples of entries are then sums and
\* multiples of their counts, and the real parts used stay below JUnit / 2
JUnit == 100000

\* "A[v1, i] += s" and "A[v2, i] += -s", each for a variable terminal: the
\* current of the component in the equations of its two nodes
NodeRows(c, ls, dict, s) ==
    LET i  == dict[c.current_var_name]
        s1 == IF c.node1.str THEN AddA(ls, dict[c.node1.name], i, s) ELSE ls
    IN  IF c.node2.str THEN AddA(s1, dict[c.node2.name], i, -s) ELSE s1

\* "A[i, v1] = 0", "A[i, v2] = 0", each for a variable terminal
ZeroTerminals(c, ls, dict) ==
    LET i  == dict[c.current_var_name]
        s1 == IF c.node1.str THEN SetA(ls, i, dict[c.node1.name], 0) ELSE ls
    IN  IF c.node2.str THEN SetA(s1, i, dict[c.node2.name], 0) ELSE s1

\* "A[i, v1] = k" or "b[i] -= k * v1", then "A[i, v2] = -k" or
\* "b[i] += k * v2": the voltage across the terminals, k times, in row i
TerminalRow(c, ls, dict, k) ==
    LET i  == dict[c.current_var_name]
        s1 == IF c.node1.str THEN SetA(ls, i, dict[c.node1.name], k)
              ELSE AddB(ls, i, -(k * c.node1.val))
    IN  IF c.node2.str THEN SetA(s1, i, dict[c.node2.name], -k)
        ELSE AddB(s1, i, k * c.node2.val)

\* math.exp(m * (v_bias - v0)) for a diode with m = 10 / V, v_bias in tenths
\* of a volt from -4 to 4, in hundredths and rounded
Exp(k) == <<2, 5, 14, 37, 100, 272, 739, 2009, 5460>>[k + 5]

\* "i_derivative = i_bias * m" in units of i0 * m * exp(-m * v0) / 100
i_derivative(v_bias) == Exp(v_bias)

\* "v = i_bias / i_derivative", which is 1 / m, and "v_offset = v_bias - v"
v_offset(v_bias) == v_bias - 1

\* Diode.apply_component_only_stamps
Diode_apply_component_only_stamps(c, ls, dict) ==
    LET v_int == dict[c.internal_node_name]
        i     == dict[c.current_var_name]
        g     == i_derivative(c.v_bias)
        s1    == SetA(SetA(ls, v_int, i, -1), v_int, v_int, g)
        s2    == IF c.node2.str
                 THEN SetB(SetA(s1, v_int, dict[c.node2.name], -g), v_int, 0)
                 ELSE SetB(s1, v_int, c.node2.val * g)
        s3    == SetA(s2, i, v_int, -1)
    IN  IF c.node1.str
        THEN SetB(SetA(s3, i, dict[c.node1.name], 1), i, v_offset(c.v_bias))
        ELSE SetB(s3, i, v_offset(c.v_bias) - c.node1.val)

\* "dt_over_2c = time_step / (2 * value)", "dt_over_2L = time_step /
\* (2 * value)": exact for the steps and values used
dt_over_2(time_step, value) == time_step \div (2 * value)

\* "cw = self.value * w", w in hundredths of a radian per second
cw(value, w) == value * w

\* "one_over_Lw = 1 / (self.value * w)", in units of 1 / GScale
one_over_Lw(value, w) == (GScale * WUnit) \div (value * w)

\* C.apply_component_only_stamps
C_apply_component_only_stamps(c, ls, dict, d) ==
    LET i  == dict[c.current_var_name]
        s0 == SetB(SetA(ZeroTerminals(c, ls, dict), i, i, 0), i, 0)
    IN  IF d.mode = Transient
        THEN LET k == dt_over_2(d.time_step, c.value)
             IN  AddB(SetA(TerminalRow(c, s0, dict, 1), i, i, -k),
                      i, k * c.st_i + c.st_v)
        ELSE IF d.mode = AC_Sweep
        THEN SetA(TerminalRow(c, s0, dict, JUnit * cw(c.value, d.w)),
                  i, i, -1)
        ELSE SetB(SetA(s0, i, i, 1), i, 0)

\* "b += v": numpy adds v to every entry of the array b in place
AddAllB(ls, v) == [ls EXCEPT !.b = [r \in DOMAIN @ |-> @[r] + v]]

\* L.apply_component_only_stamps, lines 681-691, the DC branch:
\* "b += v1 * -1" and "b += v2" for the fixed terminals
L_dc_stamps(c, ls, dict) ==
    LET i  == dict[c.current_var_name]
        s1 == IF c.node1.str THEN SetA(ls, i, dict[c.node1.name], 1)
              ELSE AddAllB(ls, -c.node1.val)
    IN  IF c.node2.str THEN SetA(s1, i, dict[c.node2.name], -1)
        ELSE AddAllB(s1, c.node2.val)

\* L.apply_component_only_stamps
L_apply_component_only_stamps(c, ls, dict, d) ==
    LET i  == dict[c.current_var_name]
        s0 == SetB(SetA(ZeroTerminals(c, ls, dict), i, i, 0), i, 0)
    IN  IF d.mode = Transient
        THEN LET k == dt_over_2(d.time_step, c.value)
             IN  AddB(SetA(TerminalRow(c, s0, dict, k), i, i, -1),
                      i, -(k * c.st_v) - c.st_i)
        ELSE IF d.mode = AC_Sweep
        THEN SetA(TerminalRow(c, s0, dict,
                              -(JUnit * one_over_Lw(c.value, d.w))),
                  i, i, -1)
        ELSE L_dc_stamps(c, s0, dict)

\* VG.apply_component_only_stamps gone wrong: a fixed terminal is left out
VG_apply_component_only_stamps_FixedDropped(c, ls, dict) ==
    LET i  == dict[c.current_var_name]
        s0 == SetB(ZeroTerminals(c, ls, dict), i, 0)
        s1 == IF c.node1.str THEN SetA(s0, i, dict[c.node1.name], 1) ELSE s0
        s2 == IF c.node2.str THEN SetA(s1, i, dict[c.node2.name], -1) ELSE s1
    IN  AddB(s2, i, c.value)

\* VG.apply_component_only_stamps
VG_apply_component_only_stamps(c, ls, dict) ==
    LET i  == dict[c.current_var_name]
        s0 == SetB(ZeroTerminals(c, ls, dict), i, 0)
    IN  AddB(TerminalRow(c, s0, dict, 1), i, c.value)

\* apply_component_only_stamps of the variants that have one
apply_component_only_stamps(c, ls, dict, d) ==
    CASE c.kind = "Diode" -> Diode_apply_component_only_stamps(c, ls, dict)
      [] c.kind = "C"     -> C_apply_component_only_stamps(c, ls, dict, d)
      [] c.kind = "L"     -> L_apply_component_only_stamps(c, ls, dict, d)
      [] c.kind = "VG"    -> VG_apply_component_only_stamps(c, ls, dict)

\* c.init_linear_system(linear_system, variable_names, analysis_description)
\* on the entries
InitEntries(c, ls, dict, d) ==
    CASE c.kind = "R"  -> R_apply_element_stamps(c, ls, dict, FALSE)
      [] c.kind = "VS" -> VS_init_linear_system(c, ls, dict)
      [] c.kind = "VG" ->
            apply_component_only_stamps(c, NodeRows(c, ls, dict, -1), dict, d)
      [] OTHER ->
            apply_component_only_stamps(c, NodeRows(c, ls, dict, 1), dict, d)

\* c.update_linear_system(linear_system, variable_names, analysis_description)
\* on the entries
UpdateEntries(c, ls, dict, d) ==
    CASE c.kind = "R"  -> R_update_linear_system(c, ls, dict)
      [] c.kind = "VS" -> VS_update_linear_system(c, ls, dict)
      [] OTHER -> apply_component_only_stamps(c, ls, dict, d)

\* "for c in all_components: c.init_linear_system(...)" on a new system
InitAll(list, d) ==
    [list  |-> [i \in 1..Len(list) |-> init_linear_system(list[i], d).c],
     stamp |-> [i \in 1..Len(list) |-> init_linear_system(list[i], d).rows]]

\* UpdateEach gone wrong: only the first component listed is restamped
RECURSIVE UpdateEach_FirstOnly(_, _, _, _)
UpdateEach_FirstOnly(st, idx, k, d) ==
    IF k > Len(idx) \/ k > 1 THEN st
    ELSE LET i == idx[k]
             r == update_linear_system(st.list[i], st.stamp[i], d)
         IN  UpdateEach_FirstOnly([list  |-> [st.list EXCEPT ![i] = r.c],
                                   stamp |-> [st.stamp EXCEPT ![i] = r.rows],
                                   log   |-> Append(st.log,
                                               [c |-> i, mode |-> d.mode,
                                                time_step |-> d.time_step])],
                                  idx, k + 1, d)

\* "for c in <idx>: c.update_linear_system(...)", from position k on;
\* st = [list, stamp, log]
RECURSIVE UpdateEach(_, _, _, _)
UpdateEach(st, idx, k, d) ==
    IF k > Len(idx) THEN st
    ELSE LET i == idx[k]
             r == update_linear_system(st.list[i], st.stamp[i], d)
         IN  UpdateEach([list  |-> [st.list EXCEPT ![i] = r.c],
                         stamp |-> [st.stamp EXCEPT ![i] = r.rows],
                         log   |-> Append(st.log,
                                     [c |-> i, mode |-> d.mode,
                                      time_step |-> d.time_step])],
                        idx, k + 1, d)

\* "for c in non_linear: c.update_state(x, ...); c.update_linear_system(...)"
RECURSIVE UpdateNonLinear(_, _, _, _, _)
UpdateNonLinear(st, idx, k, dict, xs) ==
    IF k > Len(idx) THEN st
    ELSE LET i == idx[k]
             c == Diode_update_state(st.list[i], dict, xs)
             r == update_linear_system(c, st.stamp[i], st.d)
         IN  UpdateNonLinear([st EXCEPT !.list[i] = r.c, !.stamp[i] = r.rows],
                             idx, k + 1, dict, xs)

\* UpdateLC gone wrong: the rows are restamped, update_state is left out
UpdateLC_RestampOnly(st, idx, k, dict, xs) ==
    LET r == UpdateEach([list |-> st.list, stamp |-> st.stamp, log |-> <<>>],
                        idx, k, st.d)
    IN  [st EXCEPT !.list = r.list, !.stamp = r.stamp]

\* "for c in lc: c.update_state(x, ...); c.update_linear_system(...)"
RECURSIVE UpdateLC(_, _, _, _, _)
UpdateLC(st, idx, k, dict, xs) ==
    IF k > Len(idx) THEN st
    ELSE LET i == idx[k]
             c == LC_update_state(st.list[i], dict, xs)
             r == update_linear_system(c, st.stamp[i], st.d)
         IN  UpdateLC([st EXCEPT !.list[i] = r.c, !.stamp[i] = r.rows],
                      idx, k + 1, dict, xs)

-----------------------------------------------------------------------------
(* The linear solver and the residual, which the model does not compute *)

XHigh == 4

\* the vectors numpy.linalg.solve may return for n unknowns
Solutions(n) ==
    {[i \in 1..n |-> 0], [i \in 1..n |-> IF i = 1 THEN XHigh ELSE 0]}

\* ILinearSystem.solve (dense): a solution, or LinAlgError
LinearSolveOutcomes(n) ==
    {[ok |-> TRUE, x |-> sol] : sol \in Solutions(n)}
    \cup {[ok |-> FALSE, x |-> None]}

\* sum_non_linear_error: 0 without diodes; with diodes
\* sum |i0 * exp(m * (v - v0)) - x[i]|, any non-negative number, or the
\* OverflowError of math.exp
Residuals(diodes) ==
    IF diodes = <<>> THEN {[ok |-> TRUE, err |-> 0]}
    ELSE {[ok |-> TRUE, err |-> e] : e \in {0, 1, 500}}
         \cup {[ok |-> FALSE, err |-> 0]}

RECURSIVE SumAbs(_, _)
SumAbs(xs, k) == IF k > Len(xs) THEN 0 ELSE Abs(xs[k]) + SumAbs(xs, k + 1)

\* max_err gone wrong: a tolerance of 1e-2 of the norm
max_err_Loose(xs) ==
    LET scaled == SumAbs(xs, 1) * RelTol * 10
    IN  IF scaled < MinTol THEN MinTol ELSE scaled

\* "max_err = norm * 1e-3; if max_err < 1e-6: max_err = 1e-6"
max_err(xs) ==
    LET scaled == SumAbs(xs, 1) * RelTol
    IN  IF scaled < MinTol THEN MinTol ELSE scaled

-----------------------------------------------------------------------------
(* Inputs of the assembly specification *)

MaxComponents == 3

MaxMixed == 2

NodeNames == {GND, <<"a">>, <<"b">>, <<"c">>}

UserNames == {<<"x">>, <<"y">>}

\* the names a caller may pass to a component's constructor
CandidateNames == UserNames \cup {<<"$", "0">>, <<"x", ".", "y">>}

\* "else: self.check_name(name)": the constructor raises on the other names,
\* so only these are names of component objects
LegalNames == {n \in CandidateNames : check_name(n)}

VSValues == {1, 2}

NodePairs == {p \in NodeNames \X NodeNames : p[1] # p[2]}

MixedPairs == {<<<<"a">>, <<"b">>>>, <<GND, <<"a">>>>, <<<<"b">>, GND>>}

\* networks of unnamed voltage sources
VSChoices ==
    {NewComponent("VS", p[1], p[2], v, None) : p \in NodePairs, v \in VSValues}

\* components of every variant, named by the user or not
MixedChoices ==
    {NewComponent(k, p[1], p[2], 1, n) :
        k \in Kinds, p \in MixedPairs, n \in {None} \cup LegalNames}

\* resistors that differ in their names only
NamedChoices ==
    {NewComponent("R", <<"a">>, <<"b">>, 1, n) : n \in {None} \cup LegalNames}

NetlistsUpTo(choices, n) == UNION {[1..k -> choices] : k \in 1..n}

GndOnly == [n \in {GND} |-> 0]

\* "gnd = 0" alone, or with the reference "a = 3"
ConstantMaps == {GndOnly, [n \in {GND, <<"a">>} |-> IF n = GND THEN 0 ELSE 3]}

InitAsm ==
    /\ host = NoHost
    /\ phase = "new"
    /\ \/ /\ list_of_components \in NetlistsUpTo(VSChoices, MaxComponents)
          /\ init_constants \in ConstantMaps
       \/ /\ list_of_components \in NetlistsUpTo(MixedChoices, MaxMixed)
          /\ init_constants = GndOnly
       \/ /\ list_of_components \in NetlistsUpTo(NamedChoices, MaxComponents)
          /\ init_constants = GndOnly
    /\ all_components = <<>>
    /\ voltage_constants = EmptyDict
    /\ constant_voltages = <<>>
    /\ non_linear = <<>>
    /\ lc = <<>>
    /\ modified = <<>>
    /\ variable_names_dict = EmptyDict
    /\ variable_names_list = <<>>
    /\ components_dict = EmptyDict
    /\ passes = 0
    /\ last_call = <<"none", None>>
    /\ last_returned = 0
    /\ RunFieldsInit

\* Circuit.__init__
Construct ==
    /\ phase = "new"
    /\ \E cc \in {CircuitComponents(list_of_components, init_constants)} :
           /\ phase' = IF cc.ok THEN "built" ELSE "failed"
           /\ all_components' = cc.all_components
           /\ voltage_constants' = cc.voltage_constants
           /\ constant_voltages' = cc.constant_voltages
           /\ non_linear' = cc.non_linear
           /\ lc' = cc.lc
           /\ variable_names_dict' = cc.variable_names_dict
           /\ variable_names_list' = cc.variable_names_list
           /\ components_dict' = cc.components_dict
           /\ passes' = cc.passes
    /\ last_call' = <<"Circuit", None>>
    /\ UNCHANGED <<host, list_of_components, init_constants, modified,
                   last_returned, pc, error, lsVars, recVars, call, desc,
                   newton, hist, entryVars>>

NextAsm == Construct

SpecAsm == InitAsm /\ [][NextAsm]_vars

-----------------------------------------------------------------------------
(* The analyses.  pc is the position inside the running call: "idle" between
   calls, "continue" at line 339, "while" at line 365, "solve" at line 203,
   "newton" at line 208, "restamp" at line 227, "record" at line 367,
   "lc_update" at line 377, "advance" at line 389.  Times are counted in
   ticks; the run times and time steps offered are even, so that the half
   step of line 402 is a whole number of ticks. *)

MaxRunSteps == 3
MaxStepSize == 2
MaxTime == 8
MaxIter == 2
MaxModified == 2
MaxCalls == 2

RunTimes == {-2} \cup {2 * k : k \in 0..MaxRunSteps}
TimeSteps == {2 * k : k \in 1..MaxStepSize}
StartRecordTimes == {0, 2}
MaxIters == 0..MaxIter

\* an exception leaves the call
Raise(e) == pc' = "idle" /\ error' = e

Idle == pc = "idle" /\ phase = "built"

\* one more analysis may be called
MayCall == Idle /\ hist.calls < host.calls

\* "time_step=None": the argument was left out
Omitted == -1

\* "default to collecting 1024 points"
DefaultSteps == 1024

\* "time_step = (end - start_record_time) / 1024"; times are counted in
\* ticks, and a call leaves time_step out only where this is a whole number
\* of ticks
\* DefaultTimeStep gone wrong: the span is cut into half as many steps
DefaultTimeStep_HalfAsMany(start, end) ==
    (end - start) \div (DefaultSteps \div 2)

DefaultTimeStep(start, end) == (end - start) \div DefaultSteps
ExactDefault(start, end) == (end - start) % DefaultSteps = 0

Max(m, n) == IF m >= n THEN m ELSE n

\* the history of a call keeps its first LogCap steps
LogCap == DefaultSteps + 2

\* Circuit.dc_analysis up to its call of solve
DcAnalysis(max_iter) ==
    /\ MayCall
    /\ ls_dtype' = "float64"
    /\ desc' = [AnalysisDescription EXCEPT !.mode = DC]
    /\ \E r \in {InitAll(all_components, desc')} :
           all_components' = r.list /\ stamp' = r.stamp
    /\ x' = None
    /\ x_fresh' = FALSE
    /\ call' = [NoCall EXCEPT !.op = "dc_analysis", !.max_iter = max_iter]
    /\ newton' = NoNewton
    /\ pc' = "solve"
    /\ error' = "none"
    /\ last_call' = <<"dc_analysis", None>>
    /\ hist' = [hist EXCEPT !.calls = @ + 1, !.got = NoHist.got,
                            !.entered = FALSE]
    /\ UNCHANGED <<entryVars, tableVars, modified, last_returned, recVars>>

\* Circuit.solve, line 203: the initial solution attempt
SolveFirst ==
    /\ pc = "solve"
    /\ IF ls_dtype = "none"
       THEN /\ Raise("AttributeError")
            /\ newton' = [NoNewton EXCEPT !.max_iter = call.max_iter,
                                          !.outcome = "AttributeError"]
            /\ UNCHANGED <<x, x_fresh>>
       ELSE \E out \in LinearSolveOutcomes(Len(variable_names_list)) :
               IF out.ok
               THEN /\ x' = out.x
                    /\ x_fresh' = TRUE
                    /\ newton' = [NoNewton EXCEPT !.max_iter = call.max_iter,
                                                  !.outcome = "running",
                                                  !.solves = 1]
                    /\ pc' = "newton"
                    /\ UNCHANGED error
               ELSE /\ Raise("LinAlgError")
                    /\ newton' = [NoNewton EXCEPT !.max_iter = call.max_iter,
                                                  !.outcome = "LinAlgError",
                                                  !.solves = 1]
                    /\ UNCHANGED <<x, x_fresh>>
    /\ UNCHANGED <<entryVars, tableVars, all_components, modified, last_call,
                   last_returned, ls_dtype, stamp, recVars, call, desc, hist>>

\* NewtonTest gone wrong: "while num_iter <= max_iter"
NewtonTest_OneMore ==
    /\ pc = "newton"
    /\ IF newton.num_iter <= call.max_iter
       THEN \E r \in Residuals(non_linear) :
               IF r.ok
               THEN /\ newton' = [newton EXCEPT
                                    !.err = r.err,
                                    !.tests = Append(@, r.err < max_err(x)),
                                    !.outcome = IF r.err < max_err(x)
                                                THEN "returned" ELSE @]
                    /\ pc' = IF r.err < max_err(x)
                             THEN IF call.op = "dc_analysis" THEN "idle"
                                  ELSE IF call.op = "ac_sweep"
                                  THEN "ac_collect"
                                  ELSE "record"
                             ELSE "restamp"
                    /\ UNCHANGED error
               ELSE /\ Raise("OverflowError")
                    /\ newton' = [newton EXCEPT !.outcome = "OverflowError"]
       ELSE /\ Raise("NonConvergence")
            /\ newton' = [newton EXCEPT !.outcome = "NonConvergence"]
    /\ UNCHANGED <<entryVars, tableVars, all_components, modified, last_call,
                   last_returned, lsVars, recVars, call, desc, hist>>

\* Circuit.solve, lines 208-223 and 240: the loop test and the error test
NewtonTest ==
    /\ pc = "newton"
    /\ IF newton.num_iter < call.max_iter
       THEN \E r \in Residuals(non_linear) :
               IF r.ok
               THEN /\ newton' = [newton EXCEPT
                                    !.err = r.err,
                                    !.tests = Append(@, r.err < max_err(x)),
                                    !.outcome = IF r.err < max_err(x)
                                                THEN "returned" ELSE @]
                    /\ pc' = IF r.err < max_err(x)
                             THEN IF call.op = "dc_analysis" THEN "idle"
                                  ELSE IF call.op = "ac_sweep"
                                  THEN "ac_collect"
                                  ELSE "record"
                             ELSE "restamp"
                    /\ UNCHANGED error
               ELSE /\ Raise("OverflowError")
                    /\ newton' = [newton EXCEPT !.outcome = "OverflowError"]
       ELSE /\ Raise("NonConvergence")
            /\ newton' = [newton EXCEPT !.outcome = "NonConvergence"]
    /\ UNCHANGED <<entryVars, tableVars, all_components, modified, last_call,
                   last_returned, lsVars, recVars, call, desc, hist>>

\* Circuit.solve, lines 227-236: update every diode, solve again
NewtonRestamp ==
    /\ pc = "restamp"
    /\ \E r \in {UpdateNonLinear([list |-> all_components, stamp |-> stamp,
                                  d |-> desc],
                                 non_linear, 1, variable_names_dict, x)} :
           all_components' = r.list /\ stamp' = r.stamp
    /\ \E out \in LinearSolveOutcomes(Len(variable_names_list)) :
           IF out.ok
           THEN /\ x' = out.x
                /\ x_fresh' = TRUE
                /\ newton' = [newton EXCEPT !.num_iter = @ + 1,
                                            !.solves = @ + 1,
                                            !.rounds = @ + 1]
                /\ pc' = "newton"
                /\ UNCHANGED error
           ELSE /\ Raise("LinAlgError")
                /\ newton' = [newton EXCEPT !.outcome = "LinAlgError",
                                            !.solves = @ + 1,
                                            !.rounds = @ + 1]
                /\ x_fresh' = (x_fresh /\ non_linear = <<>>)
                /\ UNCHANGED x
    /\ UNCHANGED <<entryVars, tableVars, modified, last_call, last_returned, ls_dtype,
                   recVars, call, desc, hist>>

\* the positions of var_list before the first unknown name
RECURSIVE KnownPrefix(_, _, _)
KnownPrefix(var_list, dict, k) ==
    IF k > Len(var_list) \/ var_list[k] \notin DOMAIN dict THEN k - 1
    ELSE KnownPrefix(var_list, dict, k + 1)

\* Circuit.transient_simulation, lines 285-323, up to its call of
\* continue_transient_simulation; line 300 raises KeyError at an unknown name
TransientSimulation(start, end, var_list, time_step, max_iter) ==
    /\ MayCall
    /\ time_step = Omitted => ExactDefault(start, end)
    /\ t' = 0
    /\ start_record_time' = start
    /\ time_stamps' = <<>>
    /\ var_list_index' =
           [i \in 1..KnownPrefix(var_list, variable_names_dict, 1) |->
               variable_names_dict[var_list[i]]]
    /\ call' = [NoCall EXCEPT !.op = "transient_simulation",
                              !.run_time = end - 0,
                              !.omitted = (time_step = Omitted),
                              !.time_step =
                                  IF time_step = Omitted
                                  THEN DefaultTimeStep(start, end)
                                  ELSE time_step,
                              !.max_iter = max_iter]
    /\ last_call' = <<"transient_simulation", None>>
    /\ IF KnownPrefix(var_list, variable_names_dict, 1) < Len(var_list)
       THEN /\ Raise("KeyError")
            /\ hist' = [hist EXCEPT !.calls = @ + 1, !.got = NoHist.got,
                                    !.entered = FALSE,
                                    !.reached = FALSE,
                                    !.var_list = var_list,
                                    !.key_error = TRUE]
            /\ UNCHANGED <<all_components, lsVars, results, desc>>
       ELSE /\ results' = [i \in 1..Len(var_list) |-> <<>>]
            /\ desc' = [AnalysisDescription EXCEPT
                          !.mode = Transient, !.time_step = call'.time_step]
            /\ ls_dtype' = "float64"
            /\ \E r \in {InitAll(all_components, desc')} :
                   all_components' = r.list /\ stamp' = r.stamp
            /\ x' = None
            /\ x_fresh' = FALSE
            /\ hist' = [hist EXCEPT !.calls = @ + 1, !.got = NoHist.got,
                                    !.entered = FALSE,
                                    !.var_list = var_list,
                                    !.key_error = FALSE]
            /\ pc' = "continue"
            /\ error' = "none"
    /\ UNCHANGED <<entryVars, tableVars, modified, last_returned, newton>>

\* the call of Circuit.continue_transient_simulation
ContinueTransientSimulation(run_time, time_step, max_iter) ==
    /\ MayCall
    /\ t + run_time <= MaxTime
    /\ time_step = Omitted =>
           ExactDefault(Max(t, start_record_time), t + run_time)
    /\ call' = [NoCall EXCEPT !.op = "continue_transient_simulation",
                              !.after_end = hist.reached,
                              !.run_time = run_time,
                              !.omitted = (time_step = Omitted),
                              !.time_step = time_step,
                              !.max_iter = max_iter]
    /\ pc' = "continue"
    /\ error' = "none"
    /\ last_call' = <<"continue_transient_simulation", None>>
    /\ hist' = [hist EXCEPT !.calls = @ + 1, !.got = NoHist.got,
                            !.entered = FALSE]
    /\ UNCHANGED <<entryVars, tableVars, all_components, modified, last_returned,
                   lsVars, recVars, desc, newton>>

\* a component whose update_linear_system reads the linear system
TouchesSystem(c) == ~(c.kind = "VS" /\ c.disabled)

\* continue_transient_simulation, lines 339-358: end_time, the default
\* time_step, the analysis description, the restamp of the modified
\* components
ContinueEntry ==
    /\ pc = "continue"
    /\ call' = [call EXCEPT
                  !.end_time = t + call.run_time,
                  !.time_step =
                      IF call.time_step = Omitted
                      THEN DefaultTimeStep(Max(t, start_record_time),
                                           t + call.run_time)
                      ELSE call.time_step]
    /\ desc' = [AnalysisDescription EXCEPT !.mode = Transient,
                                           !.time_step = call'.time_step]
    /\ IF /\ ls_dtype = "none"
          /\ \E k \in 1..Len(modified) :
                 TouchesSystem(all_components[modified[k]])
       THEN /\ Raise("AttributeError")
            /\ UNCHANGED <<all_components, modified, stamp, x_fresh, hist>>
       ELSE /\ \E r \in {IF ls_dtype = "none"
                         THEN [list |-> all_components, stamp |-> stamp,
                               log |-> [k \in 1..Len(modified) |->
                                          [c |-> modified[k],
                                           mode |-> desc'.mode,
                                           time_step |-> desc'.time_step]]]
                         ELSE UpdateEach([list |-> all_components,
                                          stamp |-> stamp, log |-> <<>>],
                                         modified, 1, desc')} :
                   /\ all_components' = r.list
                   /\ stamp' = r.stamp
                   /\ hist' = [hist EXCEPT !.entered = TRUE,
                                           !.t_before = t,
                                           !.reached = FALSE,
                                           !.requested = hist.obtained,
                                           !.obtained = {},
                                           !.restamped = r.log,
                                           !.solves = 0,
                                           !.appended = <<>>,
                                           !.advances = <<>>]
            /\ x_fresh' = (x_fresh /\ modified = <<>>)
            /\ modified' = <<>>
            /\ pc' = "while"
            /\ UNCHANGED error
    /\ UNCHANGED <<entryVars, tableVars, last_call, last_returned, ls_dtype, x, recVars,
                   newton>>

\* While gone wrong: the timestamp is appended before the step is solved
While_StampsFirst ==
    /\ pc = "while"
    /\ IF t < call.end_time
       THEN /\ pc' = "solve"
            /\ time_stamps' = Append(time_stamps, t)
            /\ UNCHANGED hist
       ELSE /\ pc' = "idle"
            /\ hist' = [hist EXCEPT !.prev_end = call.end_time,
                                    !.reached = (t = call.end_time)]
            /\ UNCHANGED time_stamps
    /\ UNCHANGED <<entryVars, tableVars, all_components, modified, last_call,
                   last_returned, error, lsVars, t, start_record_time,
                   var_list_index, results, call, desc, newton>>

\* While gone wrong: "while self.__t <= end_time"
While_Inclusive ==
    /\ pc = "while"
    /\ IF t <= call.end_time
       THEN pc' = "solve" /\ UNCHANGED hist
       ELSE /\ pc' = "idle"
            /\ hist' = [hist EXCEPT !.prev_end = call.end_time,
                                    !.reached = (t = call.end_time)]
    /\ UNCHANGED <<entryVars, tableVars, all_components, modified, last_call,
                   last_returned, error, lsVars, recVars, call, desc, newton>>

\* continue_transient_simulation, line 365 and the return of line 406
While ==
    /\ pc = "while"
    /\ IF t < call.end_time
       THEN pc' = "solve" /\ UNCHANGED hist
       ELSE /\ pc' = "idle"
            /\ hist' = [hist EXCEPT !.prev_end = call.end_time,
                                    !.reached = (t = call.end_time)]
    /\ UNCHANGED <<entryVars, tableVars, all_components, modified, last_call,
                   last_returned, error, lsVars, recVars, call, desc, newton>>

\* continue_transient_simulation, lines 367-374: collect data
Record ==
    /\ pc = "record"
    /\ IF start_record_time <= t
       THEN /\ time_stamps' = Append(time_stamps, t)
            /\ results' = [i \in 1..Len(results) |->
                             IF i <= Len(var_list_index)
                             THEN Append(results[i], x[var_list_index[i] + 1])
                             ELSE results[i]]
            /\ hist' = [hist EXCEPT
                          !.solves = IF @ < LogCap THEN @ + 1 ELSE @,
                          !.appended = Append(@, t)]
       ELSE /\ UNCHANGED <<time_stamps, results>>
            /\ hist' = [hist EXCEPT
                          !.solves = IF @ < LogCap THEN @ + 1 ELSE @]
    /\ pc' = "lc_update"
    /\ UNCHANGED <<entryVars, tableVars, all_components, modified, last_call,
                   last_returned, error, lsVars, t, start_record_time,
                   var_list_index, call, desc, newton>>

\* continue_transient_simulation, lines 377-380: update the LC components
LcUpdate ==
    /\ pc = "lc_update"
    /\ \E r \in {UpdateLC([list |-> all_components, stamp |-> stamp,
                           d |-> desc], lc, 1, variable_names_dict, x)} :
           all_components' = r.list /\ stamp' = r.stamp
    /\ x_fresh' = (x_fresh /\ lc = <<>>)
    /\ pc' = "advance"
    /\ UNCHANGED <<entryVars, tableVars, modified, last_call, last_returned, error,
                   ls_dtype, x, recVars, call, desc, newton, hist>>

\* the step of lines 389-404 taken, without the end-time clamping
NextStep_Unclamped(now, time_step, end_time) == time_step

\* NextStep gone wrong: no second last step, the standard step is taken
\* until the final one
NextStep_NoHalf(now, time_step, end_time) ==
    IF now + time_step < end_time THEN time_step ELSE end_time - now

\* the step of lines 389-404: standard, final, or half of the remaining time
NextStep(now, time_step, end_time) ==
    IF now + 2 * time_step < end_time THEN time_step
    ELSE IF now + time_step >= end_time THEN end_time - now
    ELSE (end_time - now) \div 2

\* continue_transient_simulation, lines 389-404: advance the time
Advance ==
    /\ pc = "advance"
    /\ \E step \in {NextStep(t, call.time_step, call.end_time)} :
           /\ t' = t + step
           /\ desc' = IF t + 2 * call.time_step < call.end_time THEN desc
                      ELSE [desc EXCEPT !.time_step = step]
           /\ hist' = [hist EXCEPT
                         !.advances = IF Len(@) < LogCap
                                      THEN Append(@, step) ELSE @]
    /\ pc' = "while"
    /\ UNCHANGED <<entryVars, tableVars, all_components, modified, last_call,
                   last_returned, error, lsVars, start_record_time,
                   var_list_index, time_stamps, results, call, newton>>

\* ClearTransientSimulationData gone wrong: the series are left as they are
ClearTransientSimulationData_TimeStampsOnly ==
    /\ Idle
    /\ time_stamps' = <<>>
    /\ last_call' = <<"clear_transient_simulation_data", None>>
    /\ UNCHANGED <<entryVars, tableVars, all_components, modified, last_returned, pc,
                   error, lsVars, t, start_record_time, var_list_index,
                   results, call, desc, newton, hist>>

\* Circuit.clear_transient_simulation_data
ClearTransientSimulationData ==
    /\ Idle
    /\ time_stamps' = <<>>
    /\ results' = [i \in 1..Len(results) |-> <<>>]
    /\ last_call' = <<"clear_transient_simulation_data", None>>
    /\ UNCHANGED <<entryVars, tableVars, all_components, modified, last_returned, pc,
                   error, lsVars, t, start_record_time, var_list_index, call,
                   desc, newton, hist>>

\* Circuit.get_component_for_modification; a component is known by its
\* position in all_components, 0 stands for None
GetComponentForModification(component_name) ==
    /\ Idle
    /\ Len(modified) < MaxModified
    /\ IF component_name \in DOMAIN components_dict
       THEN /\ modified' = Append(modified, components_dict[component_name])
            /\ last_returned' = components_dict[component_name]
            /\ hist' = [hist EXCEPT
                          !.obtained = @ \cup {components_dict[component_name]}]
       ELSE /\ last_returned' = 0
            /\ UNCHANGED <<modified, hist>>
    /\ last_call' = <<"get_component_for_modification", component_name>>
    /\ UNCHANGED <<entryVars, tableVars, all_components, pc, error, lsVars, recVars, call,
                   desc, newton>>

\* GetVariable gone wrong: the table is asked through the constants first
GetVariable_ConstantsFirst(var_name) ==
    /\ Idle
    /\ hist' = [hist EXCEPT !.got =
                  IF ls_dtype = "none"
                  THEN [raised |-> "AttributeError", value |-> 0]
                  ELSE IF var_name \in DOMAIN voltage_constants
                  THEN [raised |-> "none", value |-> voltage_constants[var_name]]
                  ELSE IF var_name \notin DOMAIN variable_names_dict
                  THEN [raised |-> "KeyError", value |-> 0]
                  ELSE IF x = None
                  THEN [raised |-> "TypeError", value |-> 0]
                  ELSE [raised |-> "none",
                        value |-> x[variable_names_dict[var_name] + 1]]]
    /\ last_call' = <<"get_variable", var_name>>
    /\ UNCHANGED <<entryVars, tableVars, all_components, modified,
                   last_returned, pc, error, lsVars, recVars, call, desc,
                   newton>>

\* Circuit.get_variable, lines 166-169: "x[variable_names[var_name]]"; what
\* the call returns or raises is kept in hist.got until the next analysis
GetVariable(var_name) ==
    /\ Idle
    /\ hist' = [hist EXCEPT !.got =
                  IF ls_dtype = "none"
                  THEN [raised |-> "AttributeError", value |-> 0]
                  ELSE IF var_name \notin DOMAIN variable_names_dict
                  THEN [raised |-> "KeyError", value |-> 0]
                  ELSE IF x = None
                  THEN [raised |-> "TypeError", value |-> 0]
                  ELSE [raised |-> "none",
                        value |-> x[variable_names_dict[var_name] + 1]]]
    /\ last_call' = <<"get_variable", var_name>>
    /\ UNCHANGED <<entryVars, tableVars, all_components, modified,
                   last_returned, pc, error, lsVars, recVars, call, desc,
                   newton>>

\* the names get_variable is asked for: the names of the table, the keys of
\* voltage_constants and a name nobody has
AskedVariables ==
    DOMAIN variable_names_dict \cup DOMAIN voltage_constants \cup {<<"nobody">>}

-----------------------------------------------------------------------------
(* ac_sweep *)

MaxPoints == 3

\* the defaults start_freq = 1 and stop_freq = 1e6, as powers of ten
StartPower == 0
StopPower == 6

RECURSIVE Pow10(_)
Pow10(e) == IF e = 0 THEN 1 ELSE 10 * Pow10(e - 1)

\* numpy.linspace(start, stop, num)
linspace(start, stop, num) ==
    [j \in 1..num |->
        IF num = 1 THEN start
        ELSE start + ((j - 1) * (stop - start)) \div (num - 1)]

\* numpy.logspace(start_power, stop_power, num)
logspace(start_power, stop_power, num) ==
    [j \in 1..num |-> Pow10(linspace(start_power, stop_power, num)[j])]

\* ac_sweep, lines 438-477: the grid, the indices of the variables asked for,
\* the new complex system.  Line 456 raises KeyError at an unknown name, line
\* 467 raises IndexError on an empty grid.
AcSweep(var_list, num_data_points, log_scale, max_iter) ==
    /\ MayCall
    /\ last_call' = <<"ac_sweep", None>>
    /\ hist' = [hist EXCEPT !.calls = @ + 1, !.got = NoHist.got,
                            !.entered = FALSE]
    /\ \E freq \in {IF log_scale
                    THEN logspace(StartPower, StopPower, num_data_points)
                    ELSE linspace(Pow10(StartPower), Pow10(StopPower),
                                  num_data_points)} :
          /\ call' = [NoCall EXCEPT
                        !.op = "ac_sweep", !.max_iter = max_iter,
                        !.num_data_points = num_data_points,
                        !.freq = freq,
                        !.var_list_index =
                            [i \in 1..KnownPrefix(var_list,
                                                  variable_names_dict, 1) |->
                                variable_names_dict[var_list[i]]],
                        !.results = [i \in 1..Len(var_list) |-> <<>>]]
          /\ IF KnownPrefix(var_list, variable_names_dict, 1) < Len(var_list)
             THEN /\ Raise("KeyError")
                  /\ UNCHANGED <<all_components, lsVars, desc>>
             ELSE IF freq = <<>>
             THEN /\ Raise("IndexError")
                  /\ desc' = [AnalysisDescription EXCEPT !.mode = AC_Sweep]
                  /\ UNCHANGED <<all_components, lsVars>>
             ELSE /\ desc' = [AnalysisDescription EXCEPT
                                !.mode = AC_Sweep, !.w = freq[1] * WUnit]
                  /\ ls_dtype' = "complex128"
                  /\ \E r \in {InitAll(all_components, desc')} :
                         all_components' = r.list /\ stamp' = r.stamp
                  /\ x' = None
                  /\ x_fresh' = FALSE
                  /\ pc' = "ac_loop"
                  /\ error' = "none"
    /\ newton' = NoNewton
    /\ UNCHANGED <<entryVars, tableVars, modified, last_returned, recVars>>

\* AcLoop gone wrong: the components are restamped before w is set
AcLoop_RestampFirst ==
    /\ pc = "ac_loop"
    /\ IF call.k < Len(call.freq)
       THEN /\ call' = [call EXCEPT !.k = @ + 1]
            /\ desc' = [desc EXCEPT !.w = call.freq[call.k + 1] * TwoPi]
            /\ \E r \in {UpdateEach([list |-> all_components,
                                     stamp |-> stamp, log |-> <<>>],
                                    lc, 1, desc)} :
                   all_components' = r.list /\ stamp' = r.stamp
            /\ x_fresh' = (x_fresh /\ lc = <<>>)
            /\ pc' = "solve"
       ELSE /\ pc' = "idle"
            /\ UNCHANGED <<all_components, stamp, x_fresh, call, desc>>
    /\ UNCHANGED <<entryVars, tableVars, modified, last_call, last_returned,
                   error, ls_dtype, x, recVars, newton, hist>>

\* ac_sweep, lines 479-489 and 496: the next grid point, w, the restamp of
\* the capacitors and inductors, the call of solve; or the return of
\* freq and results
AcLoop ==
    /\ pc = "ac_loop"
    /\ IF call.k < Len(call.freq)
       THEN /\ call' = [call EXCEPT !.k = @ + 1]
            /\ desc' = [desc EXCEPT !.w = call.freq[call.k + 1] * TwoPi]
            /\ \E r \in {UpdateEach([list |-> all_components,
                                     stamp |-> stamp, log |-> <<>>],
                                    lc, 1, desc')} :
                   all_components' = r.list /\ stamp' = r.stamp
            /\ x_fresh' = (x_fresh /\ lc = <<>>)
            /\ pc' = "solve"
       ELSE /\ pc' = "idle"
            /\ UNCHANGED <<all_components, stamp, x_fresh, call, desc>>
    /\ UNCHANGED <<entryVars, tableVars, modified, last_call, last_returned,
                   error, ls_dtype, x, recVars, newton, hist>>

\* ac_sweep, lines 490-494: collect data
AcCollect ==
    /\ pc = "ac_collect"
    /\ call' = [call EXCEPT
                  !.results = [i \in 1..Len(call.results) |->
                                 Append(call.results[i],
                                        x[call.var_list_index[i] + 1])],
                  !.collected = Append(@,
                      [k |-> call.k, fresh |-> x_fresh,
                       w |-> {stamp[lc[j]].w : j \in 1..Len(lc)},
                       mode |-> {stamp[lc[j]].mode : j \in 1..Len(lc)}])]
    /\ pc' = "ac_loop"
    /\ UNCHANGED <<entryVars, tableVars, all_components, modified, last_call,
                   last_returned, error, lsVars, recVars, desc, newton, hist>>

-----------------------------------------------------------------------------
(* dc_analysis of circuits of resistors and voltage sources, the components
   stamping A and b one after the other *)

StampPairs == {<<<<"a">>, <<"b">>>>, <<GND, <<"a">>>>, <<<<"b">>, GND>>}

\* the terminals of a voltage source: a anchored at gnd in both orders, b
\* hanging on a, b and c apart from every constant
VSPairs == {<<<<"a">>, GND>>, <<GND, <<"a">>>>, <<<<"b">>, <<"a">>>>,
            <<<<"b">>, <<"c">>>>}

RValues == {1, 2}

\* the terminals of a resistor: node b joined to a, to c, to gnd, in both
\* orders, and to itself
RPairs == {<<<<"a">>, <<"b">>>>, <<<<"b">>, <<"a">>>>,
           <<<<"b">>, <<"c">>>>, <<<<"c">>, <<"b">>>>,
           <<GND, <<"b">>>>, <<<<"b">>, GND>>, <<<<"b">>, <<"b">>>>}

RChoices ==
    {NewComponent("R", p[1], p[2], v, None) : p \in RPairs, v \in RValues}

\* voltage sources, named or not, and resistors
VSRChoices ==
    {NewComponent("VS", p[1], p[2], v, n) :
        p \in VSPairs, v \in VSValues, n \in {None, <<"x">>}}
    \cup {NewComponent("R", p[1], p[2], v, None) :
             p \in StampPairs, v \in RValues}

InitStamp ==
    /\ host = NoHost
    /\ phase = "new"
    /\ \/ list_of_components \in NetlistsUpTo(RChoices, MaxComponents)
       \/ list_of_components \in NetlistsUpTo(VSRChoices, MaxComponents)
    /\ init_constants \in ConstantMaps
    /\ all_components = <<>>
    /\ voltage_constants = EmptyDict
    /\ constant_voltages = <<>>
    /\ non_linear = <<>>
    /\ lc = <<>>
    /\ modified = <<>>
    /\ variable_names_dict = EmptyDict
    /\ variable_names_list = <<>>
    /\ components_dict = EmptyDict
    /\ passes = 0
    /\ last_call = <<"none", None>>
    /\ last_returned = 0
    /\ RunFieldsInit

\* Circuit.dc_analysis, lines 250-254: the new linear system
DcAnalysisBegin(max_iter) ==
    /\ Idle
    /\ hist.calls = 0
    /\ ls_dtype' = "float64"
    /\ desc' = [AnalysisDescription EXCEPT !.mode = DC]
    /\ \E ls \in {Zeros(Len(variable_names_list))} : A' = ls.A /\ b' = ls.b
    /\ stamped' = 0
    /\ stamp' = [i \in 1..Len(all_components) |-> NoStamp]
    /\ x' = None
    /\ x_fresh' = FALSE
    /\ call' = [NoCall EXCEPT !.op = "dc_analysis", !.max_iter = max_iter]
    /\ newton' = NoNewton
    /\ pc' = "init"
    /\ error' = "none"
    /\ last_call' = <<"dc_analysis", None>>
    /\ hist' = [hist EXCEPT !.calls = @ + 1, !.got = NoHist.got,
                            !.entered = FALSE]
    /\ UNCHANGED <<tableVars, all_components, modified, last_returned,
                   recVars>>

\* Circuit.dc_analysis, lines 258-263: init_linear_system of the next
\* component, or the call of solve after the last
InitLinearSystem ==
    /\ pc = "init"
    /\ IF stamped < Len(all_components)
       THEN /\ \E r \in {init_linear_system(all_components[stamped + 1],
                                            desc)} :
                  /\ all_components' =
                         [all_components EXCEPT ![stamped + 1] = r.c]
                  /\ stamp' = [stamp EXCEPT ![stamped + 1] = r.rows]
            /\ \E ls \in {InitEntries(all_components[stamped + 1],
                                      [A |-> A, b |-> b],
                                      variable_names_dict, desc)} :
                  A' = ls.A /\ b' = ls.b
            /\ stamped' = stamped + 1
            /\ UNCHANGED pc
       ELSE /\ pc' = "solve"
            /\ UNCHANGED <<all_components, stamp, entryVars>>
    /\ UNCHANGED <<tableVars, modified, last_call, last_returned, error,
                   ls_dtype, x, x_fresh, recVars, call, desc, newton, hist>>

NextStamp ==
    \/ Construct
    \/ DcAnalysisBegin(1)
    \/ InitLinearSystem
    \/ SolveFirst
    \/ NewtonTest
    \/ \E var_name \in AskedVariables : GetVariable(var_name)

SpecStamp == InitStamp /\ [][NextStamp]_vars

-----------------------------------------------------------------------------
(* The circuits analysed: the diode circuit of test_dc, the grounded inductor
   of test_other, the buck converter of examples with its load resistor left
   unnamed; voltages in tenths of a volt *)

DiodeCircuit ==
    [components |-> <<NewComponent("R", <<"vcc">>, <<"v1">>, 1, None),
                      NewComponent("Diode", <<"v1">>, GND, 0,
                                   <<"my_diode">>)>>,
     constants  |-> [n \in {GND, <<"vcc">>} |-> IF n = GND THEN 0 ELSE 50]]

InductorCircuit ==
    [components |-> <<NewComponent("R", <<"vcc">>, <<"v_out">>, 10, None),
                      NewComponent("R", <<"v_out">>, GND, 2, None),
                      NewComponent("L", <<"v_out">>, GND, 30, <<"L1">>)>>,
     constants  |-> [n \in {GND, <<"vcc">>} |-> IF n = GND THEN 0 ELSE 10]]

BuckCircuit ==
    [components |-> <<NewComponent("VG", <<"v_sw">>, GND, 120, <<"vg">>),
                      NewComponent("L", <<"v_sw">>, <<"v_out">>, 50,
                                   <<"L1">>),
                      NewComponent("C", <<"v_out">>, GND, 500, <<"C1">>),
                      NewComponent("R", <<"v_out">>, GND, 1, None)>>,
     constants  |-> GndOnly]

LCCircuit ==
    [components |-> <<NewComponent("L", <<"vcc">>, <<"v_out">>, 1, None),
                      NewComponent("C", <<"v_out">>, GND, 100, None)>>,
     constants  |-> [n \in {GND, <<"vcc">>} |-> IF n = GND THEN 0 ELSE 10]]

\* the end times of the runs that leave time_step out: 1024 steps of four
\* ticks from 0 and from start_record_time = 2 and 4, and a run that ends
\* at start_record_time = 2
DefaultEnds == {4 * DefaultSteps + k : k \in {0, 2, 4}} \cup {2}

\* their start_record_time: a step time (0, 4) or between two step times (2)
DefaultStarts == {0, 2, 4}

\* the names asked for: user-given, generated, auxiliary, unknown
ModNames == {<<"vg">>, <<"L1">>, <<"$", "0">>, <<"vg", ".", "current">>,
             <<"nobody">>}

\* The calling programs, after test_dc (DC and transient analyses of the diode
\* circuit), test_other (transient runs of the inductor circuit, once for the
\* time stepping, once for the recording) and examples.buck_output_ripple
\* (components modified between continued runs).  var_lists tells the variable
\* lists asked for: none, the first variable, the first and an unknown name.
Hosts ==
    {[program |-> "diode", circuit |-> DiodeCircuit,
      max_iters |-> MaxIters, run_times |-> {2}, time_steps |-> {2},
      starts |-> {0}, var_lists |-> {"first"},
      names |-> {<<"my_diode">>}, clears |-> FALSE, points |-> {}, scales |-> {},
      calls |-> MaxCalls],
     [program |-> "stepping", circuit |-> InductorCircuit,
      max_iters |-> {1}, run_times |-> RunTimes,
      time_steps |-> TimeSteps \cup {Omitted},
      starts |-> {0}, var_lists |-> {"none"},
      names |-> {}, clears |-> FALSE, points |-> {}, scales |-> {},
      calls |-> MaxCalls],
     [program |-> "recording", circuit |-> InductorCircuit,
      max_iters |-> {1}, run_times |-> {2, 4}, time_steps |-> {2},
      starts |-> StartRecordTimes,
      var_lists |-> {"none", "first", "unknown"},
      names |-> {}, clears |-> TRUE, points |-> {},
      scales |-> {}, calls |-> MaxCalls],
     [program |-> "modifying", circuit |-> BuckCircuit,
      max_iters |-> {1}, run_times |-> {2}, time_steps |-> TimeSteps,
      starts |-> {0}, var_lists |-> {"none"},
      names |-> ModNames, clears |-> FALSE, points |-> {}, scales |-> {},
      calls |-> MaxCalls],
     [program |-> "sweeping", circuit |-> LCCircuit,
      max_iters |-> {1}, run_times |-> {2}, time_steps |-> {2},
      starts |-> {0}, var_lists |-> {"first", "unknown"},
      names |-> {}, clears |-> FALSE, points |-> 0..MaxPoints,
      scales |-> BOOLEAN, calls |-> MaxCalls],
     [program |-> "defaulting", circuit |-> InductorCircuit,
      max_iters |-> {1}, run_times |-> DefaultEnds,
      time_steps |-> {Omitted}, starts |-> DefaultStarts,
      var_lists |-> {"last"},
      names |-> {}, clears |-> FALSE, points |-> {}, scales |-> {},
      calls |-> 1]}

\* the variable lists asked for
VarLists(list, shapes) ==
    IF list = <<>> THEN {}
    ELSE {IF sh = "none" THEN <<>>
          ELSE IF sh = "first" THEN <<list[1]>>
          ELSE IF sh = "last" THEN <<list[Len(list)]>>
          ELSE <<list[1], <<"nobody">>>> : sh \in shapes}

\* the state before one of the programs constructs its circuit
InitOf(programs) ==
    /\ host \in {[f \in DOMAIN h \ {"circuit"} |-> h[f]] : h \in programs}
    /\ phase = "new"
    /\ \E h \in programs :
           /\ h.program = host.program
           /\ list_of_components = h.circuit.components
           /\ init_constants = h.circuit.constants
    /\ all_components = <<>>
    /\ voltage_constants = EmptyDict
    /\ constant_voltages = <<>>
    /\ non_linear = <<>>
    /\ lc = <<>>
    /\ modified = <<>>
    /\ variable_names_dict = EmptyDict
    /\ variable_names_list = <<>>
    /\ components_dict = EmptyDict
    /\ passes = 0
    /\ last_call = <<"none", None>>
    /\ last_returned = 0
    /\ RunFieldsInit

Init == InitOf(Hosts)

Next ==
    \/ Construct
    \/ \E max_iter \in host.max_iters : DcAnalysis(max_iter)
    \/ \E start \in host.starts, end \in host.run_times,
          var_list \in VarLists(variable_names_list, host.var_lists),
          time_step \in host.time_steps, max_iter \in host.max_iters :
           TransientSimulation(start, end, var_list, time_step, max_iter)
    \/ \E run_time \in host.run_times, time_step \in host.time_steps,
          max_iter \in host.max_iters :
           ContinueTransientSimulation(run_time, time_step, max_iter)
    \/ ContinueEntry
    \/ While
    \/ SolveFirst
    \/ NewtonTest
    \/ NewtonRestamp
    \/ Record
    \/ LcUpdate
    \/ Advance
    \/ host.clears /\ ClearTransientSimulationData
    \/ \E var_list \in VarLists(variable_names_list, host.var_lists),
          num_data_points \in host.points, log_scale \in host.scales,
          max_iter \in host.max_iters :
           AcSweep(var_list, num_data_points, log_scale, max_iter)
    \/ AcLoop
    \/ AcCollect
    \/ \E component_name \in host.names :
           GetComponentForModification(component_name)
    \/ \E var_name \in AskedVariables : GetVariable(var_name)

Spec == Init /\ [][Next]_vars

\* A program of short runs, time_step given or left out, followed to the end
\* of each call: start_record_time before, at and after the end of the run.
\* A call that has begun keeps executing its statements (the interpreter runs
\* the loop of continue_transient_simulation without waiting for anybody),
\* so the steps of a running call are weakly fair.
ReturningHost ==
    [program |-> "returning", circuit |-> InductorCircuit,
     max_iters |-> {1}, run_times |-> {0, 2}, time_steps |-> {2, Omitted},
     starts |-> {0, 2, 4}, var_lists |-> {"last"},
     names |-> {}, clears |-> FALSE, points |-> {}, scales |-> {},
     calls |-> MaxCalls]

InitLive == InitOf({ReturningHost})

RunStep ==
    \/ ContinueEntry
    \/ While
    \/ SolveFirst
    \/ NewtonTest
    \/ Record
    \/ LcUpdate
    \/ Advance

NextLive ==
    \/ Construct
    \/ \E start \in host.starts, end \in host.run_times,
          var_list \in VarLists(variable_names_list, host.var_lists),
          time_step \in host.time_steps, max_iter \in host.max_iters :
           TransientSimulation(start, end, var_list, time_step, max_iter)
    \/ \E run_time \in host.run_times, time_step \in host.time_steps,
          max_iter \in host.max_iters :
           ContinueTransientSimulation(run_time, time_step, max_iter)
    \/ RunStep

SpecLive == InitLive /\ [][NextLive]_vars /\ WF_vars(RunStep)

-----------------------------------------------------------------------------
(* Assembly: properties *)

Indices(list) == 1..Len(list)

VSOf(list) == {i \in Indices(list) : list[i].kind = "VS"}

\* the names a VS was declared with
DeclNode1(i) == list_of_components[i].node1.name
DeclNode2(i) == list_of_components[i].node2.name

\* the walk of the components in declared order, each giving its names
RECURSIVE Walk(_, _)
Walk(list, i) ==
    IF i > Len(list) THEN <<>>
    ELSE get_variable_names(list[i]) \o Walk(list, i + 1)

FirstAt(w, n) == CHOOSE k \in 1..Len(w) :
                    w[k] = n /\ \A j \in 1..(k - 1) : w[j] # n

\* the nodes joined to a key of the constants by a path of VS components
RECURSIVE Anchored(_)
Anchored(S) ==
    LET more == {DeclNode1(i) : i \in {j \in VSOf(list_of_components) :
                                          DeclNode2(j) \in S}}
                \cup {DeclNode2(i) : i \in {j \in VSOf(list_of_components) :
                                          DeclNode1(j) \in S}}
    IN  IF more \subseteq S THEN S ELSE Anchored(S \cup more)

AnchoredNodes == Anchored(DOMAIN init_constants)

C9_VSLiveOrEliminated ==
    phase = "built" =>
        \A i \in VSOf(all_components) :
            LET c == all_components[i]
                live == /\ c.node1.str /\ c.node2.str /\ ~c.disabled
                        /\ get_variable_names(c) =
                              <<c.node1.name, c.node2.name,
                                c.name \o <<".", "current">>>>
                        /\ {c.node1.name, c.node2.name,
                             c.name \o <<".", "current">>}
                               \subseteq DOMAIN variable_names_dict
                        /\ \A m \in {DC, Transient, AC_Sweep} :
                               init_linear_system(c,
                                   [AnalysisDescription EXCEPT !.mode = m]
                               ).rows.on
                gone == /\ ~c.node1.str /\ ~c.node2.str /\ c.disabled
                        /\ c.node1.val - c.node2.val = c.value
                        /\ get_variable_names(c) = <<>>
                        /\ (c.name \o <<".", "current">>)
                               \notin DOMAIN variable_names_dict
                        /\ \A m \in {DC, Transient, AC_Sweep} :
                               ~init_linear_system(c,
                                   [AnalysisDescription EXCEPT !.mode = m]
                               ).rows.on
            IN  /\ live \/ gone
                /\ ~(live /\ gone)
                /\ c.node1.str = c.node2.str

\* one VS eliminated through node1, one through node2, one left live
C9_Witness ==
    /\ phase = "built"
    /\ \E i, j, k \in VSOf(all_components) :
          /\ all_components[i].disabled /\ DeclNode1(i) \in DOMAIN init_constants
          /\ all_components[j].disabled /\ DeclNode2(j) \in DOMAIN init_constants
          /\ ~all_components[k].disabled

\* C10: every node joined to a key of voltage_constants by a path of VS
\* components ends in voltage_constants with the anchor's voltage plus the
\* signed sum of the VS values along the path (node1 = node2 + value for each
\* VS of the path, the anchors keeping the voltage they were given), every VS
\* on such a path is disabled, and a VS with no such path stays live.
C10_PathSum ==
    phase = "built" =>
        /\ \A a \in DOMAIN init_constants :
              voltage_constants[a] = init_constants[a]
        /\ AnchoredNodes \subseteq DOMAIN voltage_constants
        /\ \A i \in VSOf(all_components) :
              IF DeclNode1(i) \in AnchoredNodes
              THEN /\ all_components[i].disabled
                   /\ voltage_constants[DeclNode1(i)]
                        = voltage_constants[DeclNode2(i)]
                          + all_components[i].value
              ELSE ~all_components[i].disabled

\* the netlists in which the VS components form no loop and no VS path joins
\* two keys of the constants
VSForest ==
    Cardinality(VSOf(list_of_components))
        = Cardinality(AnchoredNodes \ DOMAIN init_constants)
          + Cardinality({i \in VSOf(list_of_components) :
                           DeclNode1(i) \notin AnchoredNodes})

\* on those netlists the path sums of C10 hold
C10_PathSumOnForests == (phase = "built" /\ VSForest) => C10_PathSum

\* C11: assembly fails whenever a VS ends with both terminals fixed, by the
\* constants given or by constants derived through other VS components, and
\* node1 - node2 differs from its value; so in an assembled circuit every
\* such VS agrees with voltage_constants, and no entry given by the user was
\* replaced by a different value.
C11_InconsistentConstantsRejected ==
    phase = "built" =>
        /\ \A a \in DOMAIN init_constants :
              voltage_constants[a] = init_constants[a]
        /\ \A i \in VSOf(all_components) :
              ({DeclNode1(i), DeclNode2(i)} \subseteq DOMAIN voltage_constants)
                  => voltage_constants[DeclNode1(i)]
                       - voltage_constants[DeclNode2(i)]
                         = all_components[i].value

\* the components that were declared without a name
Unnamed == {i \in Indices(list_of_components) :
               list_of_components[i].name = None}

\* C12: assembly raises exactly when two components carry the same name;
\* a component declared without a name carries "$k", k being the number of
\* unnamed components declared before it, a named component keeps its name,
\* and no generated name equals a given name or another generated name.
C12_NamesUnique ==
    phase # "new" =>
        /\ Len(all_components) = Len(list_of_components)
        /\ (phase = "failed") <=>
              \E i, j \in Indices(all_components) :
                  i < j /\ all_components[i].name = all_components[j].name
        /\ \A i \in Unnamed :
              /\ all_components[i].name =
                    <<"$">> \o str(Cardinality({j \in Unnamed : j < i}))
              /\ \A j \in Indices(all_components) \ {i} :
                    all_components[j].name # all_components[i].name
        /\ \A i \in Indices(all_components) \ Unnamed :
              all_components[i].name = list_of_components[i].name

\* a rejected netlist: a generated name and one given name used twice
C12_Witness ==
    /\ phase = "failed"
    /\ Unnamed # {}
    /\ \E i, j \in Indices(all_components) \ Unnamed :
          i < j /\ all_components[i].name = all_components[j].name

\* the sum of f over the set S
RECURSIVE SumOf(_, _)
SumOf(f, S) ==
    IF S = {} THEN 0
    ELSE LET e == CHOOSE e \in S : TRUE IN f[e] + SumOf(f, S \ {e})

\* every component has stamped the new system
AllStamped ==
    phase = "built" /\ ls_dtype # "none" /\ stamped = Len(all_components)

\* the resistors joining node n to node m, as declared
Between(n, m) ==
    {i \in Indices(list_of_components) :
        /\ list_of_components[i].kind = "R"
        /\ \/ DeclNode1(i) = n /\ DeclNode2(i) = m
           \/ DeclNode1(i) = m /\ DeclNode2(i) = n}

\* the nodes the components were declared with
DeclNodes == {DeclNode1(i) : i \in Indices(list_of_components)}
             \cup {DeclNode2(i) : i \in Indices(list_of_components)}

\* C14: in a circuit of resistors and fixed node voltages, once every
\* component has stamped, the row of each variable node n is its Kirchhoff
\* current equation: A[n,n] is the sum of the conductances of the resistors
\* joining n to another node, A[n,m] is minus the sum of the conductances
\* between n and the variable node m, b[n] is the sum of conductance times
\* fixed voltage over the resistors from n to fixed nodes, and A is symmetric.
C14_ResistorRowsAreKCL ==
    (AllStamped /\ \A i \in Indices(all_components) :
                      all_components[i].kind = "R") =>
        LET g == [i \in Indices(list_of_components) |->
                     one_over_R(list_of_components[i].value)]
            free == DeclNodes \ DOMAIN init_constants
        IN  /\ DOMAIN variable_names_dict = free
            /\ \A n \in free :
                  LET r == variable_names_dict[n]
                  IN  /\ A[<<r, r>>] =
                            SumOf(g, UNION {Between(n, m) :
                                              m \in DeclNodes \ {n}})
                      /\ \A m \in free \ {n} :
                            A[<<r, variable_names_dict[m]>>] =
                                -SumOf(g, Between(n, m))
                      /\ b[r] =
                            SumOf([f \in DOMAIN init_constants |->
                                     init_constants[f] * SumOf(g, Between(n, f))],
                                  DOMAIN init_constants)
            /\ \A rc \in DOMAIN A : A[rc] = A[<<rc[2], rc[1]>>]

\* node b joined to the variable node c, to the fixed node a, and to itself
C14_Witness ==
    /\ AllStamped
    /\ \A i \in Indices(all_components) : all_components[i].kind = "R"
    /\ <<"a">> \in DOMAIN init_constants
    /\ Between(<<"b">>, <<"c">>) # {}
    /\ Between(<<"b">>, <<"a">>) # {}
    /\ Between(<<"b">>, <<"b">>) # {}
    /\ b[variable_names_dict[<<"b">>]] > 0

\* list without its i-th element
Without(list, i) ==
    [k \in 1..(Len(list) - 1) |-> IF k < i THEN list[k] ELSE list[k + 1]]

\* A and b after "for c in all_components: c.init_linear_system(...)" on a
\* new system
RECURSIVE EntriesFrom(_, _, _, _)
EntriesFrom(list, k, ls, dict) ==
    IF k > Len(list) THEN ls
    ELSE EntriesFrom(list, k + 1,
                     InitEntries(list[k], ls, dict,
                                 [AnalysisDescription EXCEPT !.mode = DC]),
                     dict)

\* the circuit in which the VS at position i is removed and its node1 is
\* declared as the constant node2 + value instead
Declared(i) ==
    CircuitComponents(
        Without(list_of_components, i),
        [n \in DOMAIN init_constants \cup {DeclNode1(i)} |->
            IF n = DeclNode1(i)
            THEN init_constants[DeclNode2(i)] + list_of_components[i].value
            ELSE init_constants[n]])

\* the VS components "VS a c V" with c given as a constant and a not
AnchoredAtNode2 ==
    {i \in VSOf(list_of_components) :
        /\ DeclNode2(i) \in DOMAIN init_constants
        /\ DeclNode1(i) \notin DOMAIN init_constants}

\* removing the component at position i leaves every generated name that
\* appears in the variable table as it is: the component was given a name,
\* or only resistors are declared without a name after it
KeepsGeneratedNames(i) ==
    \/ list_of_components[i].name # None
    \/ \A j \in Indices(list_of_components) :
          (j > i /\ list_of_components[j].name = None)
              => list_of_components[j].kind = "R"

\* the circuit declared with the constant has the table, A and b of the
\* circuit analysed
SameSystem(cc) ==
    LET ls == EntriesFrom(cc.all_components, 1,
                          Zeros(Len(cc.variable_names_list)),
                          cc.variable_names_dict)
    IN  /\ cc.ok
        /\ cc.variable_names_dict = variable_names_dict
        /\ cc.variable_names_list = variable_names_list
        /\ ls.A = A
        /\ ls.b = b

\* C13: a VS "VS a c V" with c fixed is equivalent to declaring a = c + V:
\* the circuit with the VS and the circuit with the VS removed and the
\* constant added have the same variable table and, once every component has
\* stamped in the same mode, the same A and b (compared where the removal
\* does not shift a generated name of the table).
C13_AnchoredVSIsAConstant ==
    AllStamped =>
        \A i \in AnchoredAtNode2 :
            KeepsGeneratedNames(i) => SameSystem(Declared(i))

\* the equivalence of C13 on the netlists whose voltage sources agree with
\* the constants
C13_OnConsistentNetworks ==
    (AllStamped /\ C11_InconsistentConstantsRejected) =>
        \A i \in AnchoredAtNode2 :
            KeepsGeneratedNames(i) => SameSystem(Declared(i))

-----------------------------------------------------------------------------
(* The analyses: properties *)

TransientOps == {"transient_simulation", "continue_transient_simulation"}

\* inside the loop of continue_transient_simulation
InLoop == pc \in {"while", "solve", "newton", "restamp", "record",
                  "lc_update", "advance"}

\* the last call of continue_transient_simulation has returned
Returned == pc = "idle" /\ error = "none" /\ hist.entered

StrictlyIncreasing(seq, k) ==
    \A j \in k..(Len(seq) - 1) : seq[j] < seq[j + 1]

\* C1: a call of continue_transient_simulation with run_time > 0 and
\* time_step > 0 whose Newton solves all return ends with
\* t = t_before + run_time = end_time, and t never exceeds end_time inside
\* the loop.
C1_EndTimeReached ==
    (hist.entered /\ call.run_time > 0 /\ call.time_step > 0) =>
        /\ InLoop => t <= call.end_time
        /\ Returned => /\ t = hist.t_before + call.run_time
                       /\ t = call.end_time

\* a continued run from t > 0 has returned after a half step and a final step
C1_Witness ==
    /\ Returned
    /\ call.op = "continue_transient_simulation"
    /\ hist.t_before > 0
    /\ call.run_time > 0
    /\ Len(hist.advances) >= 2
    /\ hist.advances[1] = hist.advances[2]
    /\ hist.advances[1] < call.time_step

UserGiven(name) ==
    name # None /\ \E i \in 1..Len(list_of_components) :
                       list_of_components[i].name = name

\* C5: get_component_for_modification(name) returns the component and appends
\* it to modified exactly when name is a name the user gave to a component;
\* for any other name, a generated $<n> included, it returns None and leaves
\* modified as it is.
C5_UserNamesOnly ==
    [][(pc = "idle" /\ pc' = "idle"
          /\ last_call'[1] = "get_component_for_modification") =>
         IF UserGiven(last_call'[2])
         THEN /\ last_returned' \in 1..Len(all_components)
              /\ list_of_components[last_returned'].name = last_call'[2]
              /\ modified' = Append(modified, last_returned')
         ELSE /\ last_returned' = 0
              /\ modified' = modified]_vars

\* a generated name was asked for after a user-given one: None, modified kept
C5_Witness ==
    /\ last_call = <<"get_component_for_modification", <<"$", "0">>>>
    /\ last_returned = 0
    /\ \E i \in 1..Len(all_components) :
           all_components[i].name = <<"$", "0">>
    /\ Len(modified) = 1
    /\ all_components[modified[1]].name = <<"vg">>

\* Circuit.solve has returned and nothing has touched the system since
SolveReturned ==
    /\ newton.outcome = "returned"
    /\ \/ pc = "record"
       \/ pc = "idle" /\ call.op = "dc_analysis" /\ error = "none"

\* C6: when Circuit.solve returns, x passed err < max(1e-6, 1e-3 * sum|x_i|),
\* x comes from a linear solve made after the last update of every nonlinear
\* component, and the rows a diode has stamped are those of the v_bias it
\* holds.
C6_ReturnedSolutionConverged ==
    SolveReturned =>
        /\ newton.tests # <<>>
        /\ newton.tests[Len(newton.tests)]
        /\ \A k \in 1..(Len(newton.tests) - 1) : ~newton.tests[k]
        /\ newton.err < (IF SumAbs(x, 1) * RelTol < MinTol THEN MinTol
                         ELSE SumAbs(x, 1) * RelTol)
        /\ x_fresh
        /\ newton.solves = newton.rounds + 1
        /\ \A k \in 1..Len(non_linear) :
               /\ stamp[non_linear[k]].on
               /\ stamp[non_linear[k]].v_bias
                      = all_components[non_linear[k]].v_bias

\* a solve returned after a diode update, on a residual that is not zero
C6_Witness ==
    /\ SolveReturned
    /\ non_linear # <<>>
    /\ newton.rounds >= 1
    /\ newton.err > 0
    /\ all_components[non_linear[1]].v_bias # 0

\* Circuit.solve is over: it has returned or raised
SolveOver == newton.outcome \notin {"none", "running"}

AllTestsFailed ==
    /\ Len(newton.tests) = newton.max_iter
    /\ \A k \in 1..Len(newton.tests) : ~newton.tests[k]

C15_SweepSolvesAtGridFrequency ==
    call.op = "ac_sweep" =>
        /\ \A j \in 1..Len(call.collected) :
              LET e == call.collected[j]
              IN  /\ e.k = j
                  /\ e.fresh
                  /\ lc # <<>> =>
                        /\ e.mode = {AC_Sweep}
                        /\ e.w = {call.freq[j] * TwoPi}
        /\ \A i \in 1..Len(call.results) :
              Len(call.results[i]) = Len(call.collected)
        /\ (pc = "idle" /\ error = "none") =>
              /\ Len(call.freq) = call.num_data_points
              /\ Len(call.collected) = Len(call.freq)
              /\ Len(call.results) = Len(call.var_list_index)

\* a sweep over three frequencies has returned, after an earlier analysis
\* had stamped the capacitor and the inductor
C15_Witness ==
    /\ call.op = "ac_sweep" /\ pc = "idle" /\ error = "none"
    /\ hist.calls = 2
    /\ Len(call.freq) = 3
    /\ Len(lc) = 2
    /\ Len(call.results) = 1 /\ Len(call.results[1]) = 3

\* a solve has failed inside the loop of continue_transient_simulation and
\* the error has reached the caller
FailedInLoop ==
    /\ pc = "idle"
    /\ error \in {"LinAlgError", "NonConvergence", "OverflowError"}
    /\ last_call[1] \in TransientOps
    /\ hist.entered

\* the sum of seq[lo..hi], by halves
RECURSIVE SumRange(_, _, _)
SumRange(seq, lo, hi) ==
    IF lo > hi THEN 0
    ELSE IF lo = hi THEN seq[lo]
    ELSE LET mid == (lo + hi) \div 2
         IN  SumRange(seq, lo, mid) + SumRange(seq, mid + 1, hi)

SumSeq(seq, k) == SumRange(seq, k, Len(seq))

DefaultedRunReturned ==
    /\ pc = "idle"
    /\ error = "none"
    /\ last_call[1] = "transient_simulation"
    /\ call.omitted
    /\ 0 <= start_record_time
    /\ start_record_time < call.end_time

\* C17: a transient_simulation that leaves time_step out, with
\* 0 <= start_record_time < end, steps by (end - start_record_time)/1024 and
\* returns with exactly 1024 timestamps and 1024 samples of every variable
\* asked for; the first sample is taken at the first multiple of the step
\* that is >= start_record_time, the samples are in increasing order and
\* none is taken at end.
C17_DefaultStepRecords1024 ==
    DefaultedRunReturned =>
        /\ call.time_step * DefaultSteps = call.end_time - start_record_time
        /\ Len(time_stamps) = DefaultSteps
        /\ Len(results) = Len(var_list_index)
        /\ \A i \in 1..Len(results) : Len(results[i]) = DefaultSteps
        /\ time_stamps[1] % call.time_step = 0
        /\ time_stamps[1] >= start_record_time
        /\ time_stamps[1] - call.time_step < start_record_time
        /\ StrictlyIncreasing(time_stamps, 1)
        /\ \A j \in 1..Len(time_stamps) : time_stamps[j] < call.end_time
        /\ t = call.end_time

\* a defaulted run whose start_record_time lies between two step times has
\* returned: its last sample is the one of the half step
C17_Witness ==
    /\ DefaultedRunReturned
    /\ start_record_time % call.time_step # 0
    /\ Len(time_stamps) = DefaultSteps
    /\ Len(results) = 1 /\ Len(results[1]) = DefaultSteps
    /\ time_stamps[DefaultSteps] % call.time_step # 0
    /\ time_stamps[1] > start_record_time

\* get_variable has just been asked for a name, after an analysis that left
\* a solution
AskedAfterAnalysis ==
    /\ Idle
    /\ last_call[1] = "get_variable"
    /\ ls_dtype # "none"
    /\ x # None

C19_OnlyLastTwoStepsDiffer ==
    [][(/\ pc = "advance"
        /\ pc' = "while"
        /\ hist.entered
        /\ call.time_step > 0) =>
           LET dt == call.time_step
               end_time == call.end_time
               step == t' - t
               n == Len(hist.advances)
               HalfAt(now) == now + dt < end_time /\ end_time <= now + 2 * dt
           IN  /\ 0 < step /\ step <= dt
               /\ (t + 2 * dt < end_time) => step = dt
               /\ HalfAt(t) => (2 * step = end_time - t /\ t' < end_time)
               /\ (t + dt >= end_time) => (step = end_time - t)
               /\ (n > 0 /\ HalfAt(t - hist.advances[n])) =>
                      (step = hist.advances[n] /\ t' = end_time)
               /\ step # dt =>
                      \A k \in 1..(n - 1) : hist.advances[k] = dt]_vars

\* a call has returned after standard steps, a half step shorter than
\* time_step and a final step of the same length
C19_Witness ==
    /\ pc = "idle" /\ error = "none" /\ hist.entered
    /\ call.time_step > 0
    /\ t = call.end_time
    /\ Len(hist.advances) >= 3
    /\ hist.advances[1] = call.time_step
    /\ hist.advances[Len(hist.advances)] < call.time_step
    /\ hist.advances[Len(hist.advances) - 1] =
           hist.advances[Len(hist.advances)]
    /\ t = hist.t_before + SumSeq(hist.advances, 1)

\* a transient call is running with end_time >= 0 and start_record_time >= 0
TransientRunning ==
    /\ pc # "idle"
    /\ call.op \in TransientOps
    /\ call.end_time >= 0
    /\ start_record_time >= 0

\* C20: every call of transient_simulation and continue_transient_simulation
\* with end / run_time >= 0 and start_record_time >= 0, time_step given or
\* left out, comes back: by returning when t reaches end_time or by the error
\* of a solve.
C20_TransientLoopsTerminate == TransientRunning ~> (pc = "idle")

\* the calls whose step is positive do come back
C20_PositiveStepTerminates ==
    (TransientRunning /\ ~(call.omitted /\ call.end_time <= start_record_time))
        ~> (pc = "idle")

-----------------------------------------------------------------------------
(* Restamping, component by component: a circuit is built, a linear system
   is created and stamped by init_linear_system of each component, and then
   the components are driven as Circuit and its callers drive them:
   update_linear_system, an assignment to value, update_state, a change of
   the analysis description *)

\* how many calls of update_linear_system are followed
MaxRestamps == 3

RestampKinds == {"R", "VS", "VG", "Diode", "C", "L"}

\* terminals: both variable, one of them fixed, or both fixed when "a" is a
\* constant
RestampPairs ==
    {<<<<"a">>, <<"b">>>>, <<<<"b">>, <<"a">>>>,
     <<<<"b">>, GND>>, <<GND, <<"b">>>>, <<<<"a">>, GND>>}

\* the component watched, named x, alone or followed by a resistor that
\* shares its node b
RestampNetlists ==
    {<<NewComponent(k, p[1], p[2], 1, <<"x">>)>> :
        k \in RestampKinds, p \in RestampPairs}
    \cup {<<NewComponent(k, p[1], p[2], 1, <<"x">>),
            NewComponent("R", <<"b">>, <<"c">>, 2, <<"y">>)>> :
             k \in RestampKinds, p \in RestampPairs}

\* the values assigned to a resistor or a VG
AssignedValues == {1, 2, 3}

\* the descriptions handed to the components: dc_analysis, the transient loop
\* with a step of 2 or 4 ticks, ac_sweep at 1 or 3 radians per second
Descriptions(dtype) ==
    {[AnalysisDescription EXCEPT !.mode = Transient, !.time_step = ts] :
        ts \in {2, 4}}
    \cup (IF dtype = "float64"
          THEN {[AnalysisDescription EXCEPT !.mode = DC]}
          ELSE {[AnalysisDescription EXCEPT !.mode = AC_Sweep, !.w = w] :
                   w \in {WUnit, 3 * WUnit}})

InitRestamp ==
    /\ host = NoHost
    /\ phase = "new"
    /\ list_of_components \in RestampNetlists
    /\ init_constants \in ConstantMaps
    /\ all_components = <<>>
    /\ voltage_constants = EmptyDict
    /\ constant_voltages = <<>>
    /\ non_linear = <<>>
    /\ lc = <<>>
    /\ modified = <<>>
    /\ variable_names_dict = EmptyDict
    /\ variable_names_list = <<>>
    /\ components_dict = EmptyDict
    /\ passes = 0
    /\ last_call = <<"none", None>>
    /\ last_returned = 0
    /\ RunFieldsInit

\* ILinearSystem.create(len(variable_names_list), dtype), with the
\* description the components are to be stamped with
CreateSystem(dtype, d) ==
    /\ Idle
    /\ ls_dtype = "none"
    /\ ls_dtype' = dtype
    /\ desc' = d
    /\ \E ls \in {Zeros(Len(variable_names_list))} : A' = ls.A /\ b' = ls.b
    /\ stamped' = 0
    /\ stamp' = [i \in 1..Len(all_components) |-> NoStamp]
    /\ pc' = "stamping"
    /\ last_call' = <<"create", None>>
    /\ UNCHANGED <<tableVars, all_components, modified, last_returned, error,
                   x, x_fresh, recVars, call, newton, hist>>

\* c.init_linear_system(...) of the next component of all_components
InitNext ==
    /\ pc = "stamping"
    /\ stamped < Len(all_components)
    /\ \E r \in {init_linear_system(all_components[stamped + 1], desc)} :
          /\ all_components' = [all_components EXCEPT ![stamped + 1] = r.c]
          /\ stamp' = [stamp EXCEPT ![stamped + 1] = r.rows]
    /\ \E ls \in {InitEntries(all_components[stamped + 1],
                              [A |-> A, b |-> b], variable_names_dict,
                              desc)} :
          A' = ls.A /\ b' = ls.b
    /\ stamped' = stamped + 1
    /\ last_call' = <<"init_linear_system", all_components[stamped + 1].name>>
    /\ UNCHANGED <<tableVars, modified, last_returned, pc, error, ls_dtype,
                   x, x_fresh, recVars, call, desc, newton, hist>>

\* every component has stamped the system
Stamped == pc = "stamping" /\ stamped = Len(all_components)

\* c.update_linear_system(...) of the component at position i
UpdateLinearSystem(i) ==
    /\ Stamped
    /\ hist.calls < MaxRestamps
    /\ \E r \in {update_linear_system(all_components[i], stamp[i], desc)} :
          /\ all_components' = [all_components EXCEPT ![i] = r.c]
          /\ stamp' = [stamp EXCEPT ![i] = r.rows]
    /\ \E ls \in {UpdateEntries(all_components[i], [A |-> A, b |-> b],
                                variable_names_dict, desc)} :
          A' = ls.A /\ b' = ls.b
    /\ hist' = [hist EXCEPT !.calls = @ + 1]
    /\ last_call' = <<"update_linear_system", all_components[i].name>>
    /\ UNCHANGED <<tableVars, modified, last_returned, pc, error, ls_dtype,
                   x, x_fresh, recVars, call, desc, newton, stamped>>

\* "c.value = v" on a resistor or a VG, as examples.py does on R_load
AssignValue(i, v) ==
    /\ Stamped
    /\ all_components[i].kind \in {"R", "VG"}
    /\ all_components' = [all_components EXCEPT ![i].value = v]
    /\ last_call' = <<"value", all_components[i].name>>
    /\ UNCHANGED <<tableVars, modified, last_returned, pc, error, lsVars,
                   recVars, call, desc, newton, hist, entryVars>>

\* c.update_state(x, variable_names) of a diode, a capacitor or an inductor
UpdateState(i, xs) ==
    /\ Stamped
    /\ all_components[i].kind \in {"Diode", "C", "L"}
    /\ all_components' =
          [all_components EXCEPT ![i] =
              IF @.kind = "Diode"
              THEN Diode_update_state(@, variable_names_dict, xs)
              ELSE LC_update_state(@, variable_names_dict, xs)]
    /\ x' = xs
    /\ last_call' = <<"update_state", all_components[i].name>>
    /\ UNCHANGED <<tableVars, modified, last_returned, pc, error, ls_dtype,
                   stamp, x_fresh, recVars, call, desc, newton, hist,
                   entryVars>>

\* the description of the next calls: "analysis_description.time_step = ...",
\* "analysis_description.w = ...", or a new AnalysisDescription
SetDescription(d) ==
    /\ Stamped
    /\ d # desc
    /\ desc' = d
    /\ last_call' = <<"description", None>>
    /\ UNCHANGED <<tableVars, all_components, modified, last_returned, pc,
                   error, lsVars, recVars, call, newton, hist, entryVars>>

NextRestamp ==
    \/ Construct
    \/ \E dtype \in {"float64", "complex128"} :
          \E d \in Descriptions(dtype) : CreateSystem(dtype, d)
    \/ InitNext
    \/ \E i \in 1..Len(all_components) : UpdateLinearSystem(i)
    \/ \E i \in 1..Len(all_components) :
          \E v \in AssignedValues : AssignValue(i, v)
    \/ \E i \in 1..Len(all_components) :
          \E xs \in Solutions(Len(variable_names_list)) : UpdateState(i, xs)
    \/ \E d \in Descriptions(ls_dtype) : SetDescription(d)

SpecRestamp == InitRestamp /\ [][NextRestamp]_vars

-----------------------------------------------------------------------------
(* Resistor restamps *)

\* the components, each with the value it had at its latest stamp
AsStamped ==
    [i \in 1..Len(all_components) |->
        [all_components[i] EXCEPT !.value = all_components[i].old_value]]

OnlyResistors == \A i \in 1..Len(all_components) : all_components[i].kind = "R"

\* C21: after init_linear_system and any sequence of assignments to value and
\* calls of update_linear_system, A and b of a circuit of resistors hold one
\* fresh stamp of each resistor, with the value it had at its latest restamp
C21_ResistorStampedOnce ==
    (Stamped /\ OnlyResistors)
        => [A |-> A, b |-> b]
             = EntriesFrom(AsStamped, 1, Zeros(Len(variable_names_list)),
                           variable_names_dict)

\* a resistor restamped MaxRestamps times, last with 3 ohms, has been assigned
\* 2 ohms since
C21_Witness ==
    /\ Stamped
    /\ OnlyResistors
    /\ hist.calls = MaxRestamps
    /\ last_call = <<"value", <<"x">>>>
    /\ all_components[1].value = 2
    /\ all_components[1].old_value = 3
    /\ Len(variable_names_list) > 0

-----------------------------------------------------------------------------
(* The diode's bias *)

\* the voltage v1 - v2 across component i in the solution x
VoltageAcross(i, xs) ==
    NodeValue(all_components[i].node1, variable_names_dict, xs)
        - NodeValue(all_components[i].node2, variable_names_dict, xs)

\* the step is update_state of the diode at position i
DiodeUpdated(i) ==
    /\ Stamped
    /\ i \in 1..Len(all_components)
    /\ all_components[i].kind = "Diode"
    /\ last_call' = <<"update_state", all_components[i].name>>

\* C22: Diode.update_state moves v_bias towards the solved voltage v1 - v2 by
\* at most 0.3 V: up by 0.3 when v > v_bias + 0.3, down by 0.3 when
\* v < v_bias - 0.3, and to v otherwise; the new v_bias lies between the old
\* one and v
C22_BiasStepLimited ==
    [][\A i \in 1..2 :
          DiodeUpdated(i) =>
              LET old == all_components[i].v_bias
                  new == all_components'[i].v_bias
                  v   == VoltageAcross(i, x')
              IN  /\ (v > old + 3) => (new = old + 3)
                  /\ (v < old - 3) => (new = old - 3)
                  /\ (old - 3 <= v /\ v <= old + 3) => (new = v)
                  /\ new - old <= 3 /\ old - new <= 3
                  /\ \/ old <= new /\ new <= v
                     \/ v <= new /\ new <= old]_vars

\* a diode whose v_bias was limited on the way up to 0.4 V and is limited on
\* the way down: it is 0.1 V while the solution says 0 V
C22_Witness ==
    /\ Stamped
    /\ all_components[1].kind = "Diode"
    /\ last_call = <<"update_state", <<"x">>>>
    /\ all_components[1].v_bias = 1
    /\ VoltageAcross(1, x) = 0

-----------------------------------------------------------------------------
(* The places a component writes *)

\* the rows of the auxiliary variables of component c: its current, and the
\* internal node of a diode; a disabled VS has none
ExclusiveRows(c) ==
    (IF c.current_var_name # None /\ ~c.disabled
     THEN {variable_names_dict[c.current_var_name]} ELSE {})
    \cup (IF c.internal_node_name # None
          THEN {variable_names_dict[c.internal_node_name]} ELSE {})

\* the rows of the variable terminals of c
TerminalRows(c) ==
    {variable_names_dict[n.name] : n \in {m \in {c.node1, c.node2} : m.str}}

Rows == 0..(Len(variable_names_list) - 1)

\* the step is init_linear_system of the component at position i
InitStep(i) == pc = "stamping" /\ stamped = i - 1 /\ stamped' = i

\* the step is update_linear_system of the component at position i
UpdateStep(i) ==
    /\ Stamped
    /\ hist.calls # hist'.calls
    /\ last_call' = <<"update_linear_system", all_components[i].name>>

\* outside the exclusive rows of c, the step changes at most A[v1, i] and
\* A[v2, i] (not even these when inits is FALSE) and no entry of b
OwnPlacesOnly(c, inits) ==
    /\ \A r \in Rows \ ExclusiveRows(c) : \A k \in Rows :
          A'[<<r, k>>] # A[<<r, k>>]
              => /\ inits
                 /\ r \in TerminalRows(c)
                 /\ k = variable_names_dict[c.current_var_name]
    /\ \A r \in Rows \ ExclusiveRows(c) : b'[r] = b[r]

\* C23: a VS, VG, diode, capacitor or inductor writes only places it owns:
\* init_linear_system changes, outside the component's exclusive rows, only
\* A[v1, i] and A[v2, i]; update_linear_system changes nothing outside them;
\* no b[r] outside them is changed, in every mode and with fixed terminals
C23_OwnPlacesOnly ==
    [][\A i \in 1..Len(all_components) :
          all_components[i].kind # "R"
              => /\ InitStep(i) => OwnPlacesOnly(all_components[i], TRUE)
                 /\ UpdateStep(i) => OwnPlacesOnly(all_components[i], FALSE)
      ]_vars

\* an inductor stamped for DC with a terminal fixed at a voltage other than 0
InductorFixedInDC(c) ==
    /\ c.kind = "L"
    /\ desc.mode = DC
    /\ \E n \in {c.node1, c.node2} : ~n.str /\ n.val # 0

\* every stamp but the inductor's for DC with a fixed non-zero terminal
\* writes only places the component owns
C23_OwnPlacesButInductorDC ==
    [][\A i \in 1..Len(all_components) :
          (all_components[i].kind # "R"
              /\ ~InductorFixedInDC(all_components[i]))
              => /\ InitStep(i) => OwnPlacesOnly(all_components[i], TRUE)
                 /\ UpdateStep(i) => OwnPlacesOnly(all_components[i], FALSE)
      ]_vars

-----------------------------------------------------------------------------
(* Restamping twice, and restamping after other stamps *)

\* row r of the system ls: its entries of A and its entry of b
RowOf(ls, r) == [k \in Rows \cup {-1} |->
                    IF k = -1 THEN ls.b[r] ELSE ls.A[<<r, k>>]]

\* the exclusive rows of c hold what init_linear_system of c, as it is now,
\* writes into them on a new system with the description in force
RowsAsFresh(c, ls) ==
    \A r \in ExclusiveRows(c) :
        RowOf(ls, r) = RowOf(InitEntries(c, Zeros(Len(variable_names_list)),
                                         variable_names_dict, desc), r)

\* the step repeats update_linear_system of the component at position i, with
\* nothing done in between
RepeatedUpdate(i) ==
    /\ UpdateStep(i)
    /\ last_call = <<"update_linear_system", all_components[i].name>>

\* C24: update_linear_system is idempotent and history-free for every variant
\* and every mode: called again with the same state and description it leaves
\* A and b as they are, and after every call the component's exclusive rows
\* depend only on its state and the description
C24_RestampIdempotent ==
    [][\A i \in 1..Len(all_components) :
          /\ RepeatedUpdate(i) => (A' = A /\ b' = b)
          /\ UpdateStep(i) =>
                RowsAsFresh(all_components'[i], [A |-> A', b |-> b'])]_vars

\* the same, leaving out the inductor stamped for DC with a fixed non-zero
\* terminal
C24_IdempotentButInductorDC ==
    [][\A i \in 1..Len(all_components) :
          ~InductorFixedInDC(all_components[i])
              => /\ RepeatedUpdate(i) => (A' = A /\ b' = b)
                 /\ UpdateStep(i) =>
                       RowsAsFresh(all_components'[i],
                                   [A |-> A', b |-> b'])]_vars

-----------------------------------------------------------------------------
(* The adjustable voltage source *)

\* the component at position 1 is a VG, it alone has stamped the system, and
\* its latest stamp is in force
OnlyVGStamped ==
    /\ pc = "stamping"
    /\ stamped = 1
    /\ all_components[1].kind = "VG"
    /\ last_call[1] \in {"init_linear_system", "update_linear_system"}

\* what a fixed terminal adds to b[i]: -v1 for node1, +v2 for node2
MovedIntoB(c) ==
    (IF c.node1.str THEN 0 ELSE -c.node1.val)
        + (IF c.node2.str THEN 0 ELSE c.node2.val)

\* C25: a VG between two variable nodes stamps the entries of a live VS of
\* the same value; a VG is never eliminated: with fixed terminals it keeps
\* its variable <name>.current and its row, whose entries for the fixed
\* terminals are moved into b[i]
C25_VGStampsLikeLiveVS ==
    OnlyVGStamped =>
        LET c  == all_components[1]
            i  == variable_names_dict[c.current_var_name]
            ls == [A |-> A, b |-> b]
        IN  /\ c.current_var_name = c.name \o <<".", "current">>
            /\ c.current_var_name \in DOMAIN variable_names_dict
            /\ ~c.disabled
            /\ (c.node1.str /\ c.node2.str)
                  => ls = VS_init_linear_system(
                              [c EXCEPT !.kind = "VS"],
                              Zeros(Len(variable_names_list)),
                              variable_names_dict)
            /\ \A k \in Rows :
                  A[<<i, k>>] =
                      IF c.node1.str /\ k = variable_names_dict[c.node1.name]
                      THEN 1
                      ELSE IF c.node2.str
                                /\ k = variable_names_dict[c.node2.name]
                      THEN -1
                      ELSE 0
            /\ b[i] = c.value + MovedIntoB(c)
            /\ \A r \in Rows \ {i} :
                  /\ b[r] = 0
                  /\ \A k \in Rows :
                        A[<<r, k>>] =
                            IF k # i THEN 0
                            ELSE IF c.node1.str
                                      /\ r = variable_names_dict[c.node1.name]
                            THEN -1
                            ELSE IF c.node2.str
                                      /\ r = variable_names_dict[c.node2.name]
                            THEN 1
                            ELSE 0

\* a VG between the fixed nodes a = 0.3 V and gnd, restamped with 2 V: its
\* current is the only variable
C25_Witness ==
    /\ OnlyVGStamped
    /\ ~all_components[1].node1.str
    /\ ~all_components[1].node2.str
    /\ all_components[1].node1.val = 3
    /\ all_components[1].value = 2
    /\ last_call[1] = "update_linear_system"
    /\ b[variable_names_dict[<<"x", ".", "current">>]] = -1

\* a VG between the variable nodes a and b, stamped
C25_WitnessLive ==
    /\ OnlyVGStamped
    /\ all_components[1].node1.str
    /\ all_components[1].node2.str
    /\ A[<<variable_names_dict[<<"a">>],
           variable_names_dict[<<"x", ".", "current">>]>>] = -1

-----------------------------------------------------------------------------
(* The time step of the LC rows *)

\* solve is about to be called by the transient loop, after at least one
\* advance of t in this call
SolvingAfterAdvance ==
    /\ pc = "solve"
    /\ call.op \in {"transient_simulation", "continue_transient_simulation"}
    /\ hist.advances # <<>>
    /\ Len(hist.advances) < LogCap

\* C26: every solve of a transient call after its first uses LC rows stamped
\* with a time_step equal to the last advance of t, so a clamped step is
\* stamped before the solve at the new t
C26_RowsStampedWithLastAdvance ==
    SolvingAfterAdvance =>
        \A k \in 1..Len(lc) :
            /\ stamp[lc[k]].mode = Transient
            /\ stamp[lc[k]].time_step = hist.advances[Len(hist.advances)]

\* as long as the advances of the call are standard steps, the LC rows carry
\* the step of the last advance
C26_StandardStepsStamped ==
    (SolvingAfterAdvance
        /\ hist.advances[Len(hist.advances)] = call.time_step)
        => \A k \in 1..Len(lc) :
               /\ stamp[lc[k]].mode = Transient
               /\ stamp[lc[k]].time_step = call.time_step

-----------------------------------------------------------------------------
(* The state of the capacitors and inductors *)

\* (v_cap, i_cap) or (v_L, i_L) of every capacitor and inductor
LCState(list) == [k \in 1..Len(lc) |-> <<list[lc[k]].st_v, list[lc[k]].st_i>>]

\* the state update_state computes from the solution x
StateFromX ==
    [k \in 1..Len(lc) |->
        <<VoltageAcross(lc[k], x),
          x[variable_names_dict[all_components[lc[k]].current_var_name] + 1]>>]

\* the step is the start of transient_simulation, which resets t and the
\* samples
TransientStart == Idle /\ call'.op = "transient_simulation"

\* C27: the LC state is changed only by the transient loop, once per solved
\* step, from the solution of that step, after the sample was recorded and
\* before t advances; dc_analysis, ac_sweep, get_variable,
\* get_component_for_modification and clear_transient_simulation_data leave
\* the state and t alone, and all but the last leave the samples alone
C27_StateOnlyByTransientLoop ==
    [][/\ LCState(all_components') # LCState(all_components)
            => pc = "lc_update"
       /\ pc = "lc_update"
            => /\ LCState(all_components') = StateFromX
               /\ pc' = "advance"
               /\ t' = t /\ time_stamps' = time_stamps /\ results' = results
               /\ x' = x
               /\ hist.solves < LogCap
                     => hist.solves = Len(hist.advances) + 1
       /\ pc' = "lc_update" /\ pc # "lc_update"
            => pc = "record" /\ t' = t
       /\ t' # t => (pc = "advance" \/ TransientStart)
       /\ (time_stamps' # time_stamps \/ results' # results)
            => \/ pc = "record"
               \/ TransientStart
               \/ Idle /\ last_call' = <<"clear_transient_simulation_data",
                                        None>>
      ]_vars

\* the inductor's state has been taken from the solution of the second call,
\* whose sample is recorded, and t has not advanced yet
C27_Witness ==
    /\ pc = "advance"
    /\ lc # <<>>
    /\ LCState(all_components) = StateFromX
    /\ all_components[lc[1]].st_v # 0
    /\ hist.calls = 2
    /\ time_stamps # <<>>
    /\ time_stamps[Len(time_stamps)] = t

-----------------------------------------------------------------------------
(* The system solved by a continued run *)

\* solve is about to be called by the transient loop, on the linear system
\* an earlier analysis or this one has created
TransientSolving ==
    /\ pc = "solve"
    /\ ls_dtype # "none"
    /\ call.op \in {"transient_simulation", "continue_transient_simulation"}

\* the rows of every capacitor and inductor are stamped for the transient
\* analysis with the state the component has now
LCRowsRunning ==
    \A k \in 1..Len(lc) :
        /\ stamp[lc[k]].mode = Transient
        /\ stamp[lc[k]].st_v = all_components[lc[k]].st_v
        /\ stamp[lc[k]].st_i = all_components[lc[k]].st_i

\* C29: whatever analyses were called before, every system solved inside the
\* transient loop is real-valued and has its LC rows stamped in Transient mode
\* with the running state
C29_TransientSolvesTransientSystem ==
    TransientSolving => (ls_dtype = "float64" /\ LCRowsRunning)

\* every solve of a call after its first finds the LC rows stamped in
\* Transient mode with the running state
C29_LaterSolvesTransient ==
    (TransientSolving /\ hist.advances # <<>>) => LCRowsRunning

-----------------------------------------------------------------------------
(* Circuits built from a description: StringCircuitBuilder reads component
   lines "R name node1 node2 value" and constants "name = value", then
   Circuit is constructed from what was read *)

\* the tokens a description may use as node names: plain names, and names
\* spelled like the auxiliary variables of a component
DescribedNodes ==
    {<<"b">>, <<"x", ".", "current">>, <<"$", "0", ".", "current">>,
     <<"x", ".", "internal_node">>}

\* component lines: a VG, diode or inductor from b to gnd, unnamed or with
\* the name token x or x.y; an unnamed resistor from any node to gnd
DescribedComponents ==
    {NewComponent(k, <<"b">>, GND, 1, n) :
        k \in {"VG", "Diode", "L"}, n \in {None} \cup {<<"x">>, <<"x", ".", "y">>}}
    \cup {NewComponent("R", n, GND, 1, None) : n \in DescribedNodes}

\* constant lines: none, "b = 3", "$0 = 3", "x.current = 3"
DescribedConstants ==
    {EmptyDict} \cup {[n \in {k} |-> 3] :
                         k \in {<<"b">>, <<"$", "0">>,
                                <<"x", ".", "current">>}}

\* how many component lines a description has
MaxLines == 2

\* StringCircuitBuilder.__init__: a component line with an illegal name fails
\* in the component's constructor, lines 50-55 check the names of the
\* components and the keys of voltage_constants; node names pass unchecked
BuilderAccepts(components, constants) ==
    /\ \A i \in 1..Len(components) :
          components[i].name # None => check_name(components[i].name)
    /\ \A k \in DOMAIN constants : check_name(k)

\* "if "gnd" not in self.voltage_constants: self.voltage_constants["gnd"] =
\* 0.0"
WithGnd(constants) ==
    [n \in DOMAIN constants \cup {GND} |->
        IF n \in DOMAIN constants THEN constants[n] ELSE 0]

InitBuild ==
    /\ host = NoHost
    /\ phase = "new"
    /\ list_of_components \in NetlistsUpTo(DescribedComponents, MaxLines)
    /\ init_constants \in DescribedConstants
    /\ all_components = <<>>
    /\ voltage_constants = EmptyDict
    /\ constant_voltages = <<>>
    /\ non_linear = <<>>
    /\ lc = <<>>
    /\ modified = <<>>
    /\ variable_names_dict = EmptyDict
    /\ variable_names_list = <<>>
    /\ components_dict = EmptyDict
    /\ passes = 0
    /\ last_call = <<"none", None>>
    /\ last_returned = 0
    /\ RunFieldsInit

\* Circuit.build_from_string
BuildFromString ==
    /\ phase = "new"
    /\ IF BuilderAccepts(list_of_components, init_constants)
       THEN /\ init_constants' = WithGnd(init_constants)
            /\ \E cc \in {CircuitComponents(list_of_components,
                                            init_constants')} :
                  /\ phase' = IF cc.ok THEN "built" ELSE "failed"
                  /\ all_components' = cc.all_components
                  /\ voltage_constants' = cc.voltage_constants
                  /\ constant_voltages' = cc.constant_voltages
                  /\ non_linear' = cc.non_linear
                  /\ lc' = cc.lc
                  /\ variable_names_dict' = cc.variable_names_dict
                  /\ variable_names_list' = cc.variable_names_list
                  /\ components_dict' = cc.components_dict
                  /\ passes' = cc.passes
       ELSE /\ phase' = "failed"
            /\ UNCHANGED <<init_constants, all_components, voltage_constants,
                           constant_voltages, non_linear, lc,
                           variable_names_dict, variable_names_list,
                           components_dict, passes>>
    /\ last_call' = <<"build_from_string", None>>
    /\ UNCHANGED <<host, list_of_components, modified, last_returned, pc,
                   error, lsVars, recVars, call, desc, newton, hist,
                   entryVars>>

NextBuild == BuildFromString

SpecBuild == InitBuild /\ [][NextBuild]_vars

\* the auxiliary variable names of a component
AuxiliaryNames(c) == {c.current_var_name, c.internal_node_name} \ {None}

\* the node names the description uses
UsedNodeNames ==
    UNION {{list_of_components[i].node1.name, list_of_components[i].node2.name} :
              i \in 1..Len(list_of_components)}

Components == 1..Len(all_components)

\* no node is named like an auxiliary variable, no two components share an
\* auxiliary name, and no component's variables include another's auxiliary
\* name
AuxiliaryNamesPrivate ==
    /\ \A i \in Components : AuxiliaryNames(all_components[i])
                                 \cap UsedNodeNames = {}
    /\ \A i, j \in Components :
          i # j => /\ AuxiliaryNames(all_components[i])
                        \cap AuxiliaryNames(all_components[j]) = {}
                   /\ \A n \in AuxiliaryNames(all_components[i]) :
                         ~\E k \in 1..Len(get_variable_names(all_components[j])) :
                             get_variable_names(all_components[j])[k] = n

\* C28: in every circuit accepted by build_from_string the auxiliary
\* variables are private to their component: no node name equals an auxiliary
\* name, no two components share one, so each exclusive row is written by one
\* component only
C28_AuxiliaryNamesPrivate == (phase = "built") => AuxiliaryNamesPrivate

\* when the node names of the description obey the naming rule as well, the
\* auxiliary variables are private
C28_PrivateWhenNodesLegal ==
    (phase = "built" /\ \A n \in UsedNodeNames : check_name(n))
        => AuxiliaryNamesPrivate

-----------------------------------------------------------------------------
(* The order of declaration *)

\* the nodes joined to a node of S by a path of the VS components in E
RECURSIVE Joined(_, _)
Joined(S, E) ==
    LET more == {DeclNode1(i) : i \in {j \in E : DeclNode2(j) \in S}}
                \cup {DeclNode2(i) : i \in {j \in E : DeclNode1(j) \in S}}
    IN  IF more \subseteq S THEN S ELSE Joined(S \cup more, E)

\* the VS components form no loop
VSLoopFree ==
    \A i \in VSOf(list_of_components) :
        DeclNode2(i) \notin Joined({DeclNode1(i)},
                                   VSOf(list_of_components) \ {i})

\* no two nodes of the constants given are joined by VS components
OneConstantPerGroup ==
    \A n, m \in DOMAIN init_constants :
        n # m => m \notin Joined({n}, VSOf(list_of_components))

\* the declaration orders: position k of the reordered list holds the
\* component declared at p[k]
Orders ==
    {p \in [Indices(list_of_components) -> Indices(list_of_components)] :
        \A j, k \in Indices(list_of_components) : p[j] = p[k] => j = k}

Reordered(p) == [k \in Indices(list_of_components) |->
                    list_of_components[p[k]]]

\* the circuit assembled from the components declared in the order p
AssembledIn(p) == CircuitComponents(Reordered(p), init_constants)

\* the disabled components, each known by its place in list_of_components
DisabledIn(list, p) == {p[k] : k \in {j \in Indices(list) : list[j].disabled}}

\* the names of the table that are node names
NodesIn(list, dict) ==
    DOMAIN dict \ UNION {AuxiliaryNames(list[k]) : k \in Indices(list)}

\* the auxiliary variables of the table, each known by its component's place
\* in list_of_components: 1 for the current, 2 for the internal node
OwnersIn(list, dict, p) ==
    {<<p[k], 1>> : k \in {j \in Indices(list) :
                            list[j].current_var_name \in DOMAIN dict}}
    \cup {<<p[k], 2>> : k \in {j \in Indices(list) :
                            list[j].internal_node_name \in DOMAIN dict}}

Identity == [k \in Indices(list_of_components) |-> k]

\* the loop of constant propagation ends: a VS reports a change once at most,
\* so there are no more passes than VS components and one
PassesBounded ==
    passes <= Cardinality(VSOf(list_of_components)) + 1

\* the constants and the disabled VS do not depend on the order p
SameConstantsIn(p) ==
    LET cc == AssembledIn(p)
    IN  /\ cc.ok
        /\ cc.voltage_constants = voltage_constants
        /\ DisabledIn(cc.all_components, p)
             = DisabledIn(all_components, Identity)

\* C30: the loop of constant propagation reaches its fixpoint after finitely
\* many passes, and for a netlist whose VS components form no loop and join
\* no two nodes of voltage_constants, the resulting voltage_constants, the
\* set of disabled VS and the names of the variable table are the same for
\* every declaration order
C30_OrderIndependent ==
    (phase = "built" /\ VSLoopFree /\ OneConstantPerGroup)
        => /\ PassesBounded
           /\ \A p \in Orders :
                 /\ SameConstantsIn(p)
                 /\ DOMAIN AssembledIn(p).variable_names_dict
                      = DOMAIN variable_names_dict

\* C30, as it holds: the names of the variable table are the same up to the
\* numbers of the generated names: the same node names, the same components
\* owning the auxiliary variables, and the same names outright when every
\* component was named by the user
C30_OrderIndependentUpToNumbering ==
    (phase = "built" /\ VSLoopFree /\ OneConstantPerGroup)
        => /\ PassesBounded
           /\ \A p \in Orders :
                 LET cc == AssembledIn(p)
                 IN  /\ SameConstantsIn(p)
                     /\ NodesIn(cc.all_components, cc.variable_names_dict)
                          = NodesIn(all_components, variable_names_dict)
                     /\ OwnersIn(cc.all_components, cc.variable_names_dict, p)
                          = OwnersIn(all_components, variable_names_dict,
                                     Identity)
                     /\ Unnamed = {}
                          => DOMAIN cc.variable_names_dict
                               = DOMAIN variable_names_dict

\* three VS stacked on gnd and declared from the top down: the loop needs
\* four passes, and all three end disabled
C30_Witness ==
    /\ phase = "built"
    /\ VSLoopFree /\ OneConstantPerGroup
    /\ Len(list_of_components) = 3
    /\ passes = 4
    /\ \A i \in 1..3 : all_components[i].kind = "VS"
                          /\ all_components[i].disabled

\* a live unnamed VS declared after a VS that is eliminated
C30_WitnessLive ==
    /\ phase = "built"
    /\ VSLoopFree /\ OneConstantPerGroup
    /\ Len(list_of_components) = 2
    /\ all_components[1].kind = "VS" /\ all_components[1].disabled
    /\ all_components[2].kind = "VS" /\ ~all_components[2].disabled
    /\ <<"$", "1", ".", "current">> \in DOMAIN variable_names_dict

====
